---- MODULE Spec2Model ----
(***************************************************************************)
(* Model of the Opendoor MCP server core: the circuit breaker              *)
(* (utils/CircuitBreaker.ts), the three-tier session store                 *)
(* (session/SessionManager.ts), the local execution manager                *)
(* (container/LocalExecutionManager.ts) and the execute_code entry points  *)
(* (tools/*.ts, core/McpServer.ts).                                        *)
(*                                                                         *)
(* The server runs on a single-threaded event loop: the code between two   *)
(* awaits runs atomically, so every action below is one such segment.      *)
(***************************************************************************)
EXTENDS Integers, Sequences, FiniteSets, TLC

VARIABLES
    \* ---- CircuitBreaker ----
    state,            \* CircuitState
    failureCount,
    successCount,
    lastFailureTime,
    now,              \* Date.now()
    inFlight,         \* operations invoked by execute() and not yet settled
    cbEvent,          \* what the last step of the breaker did (observation)
    consecutiveExpected, \* history: expected failures since the last success / reset
    successRun,       \* history: successes in HALF_OPEN since the last failure of any kind
    cbResult,         \* how the last settled execute() call ended for its caller
    \* ---- SessionManager ----
    redis,            \* TRUE iff initialize() connected the durable tier (this.redis # null)
    redisUp,          \* TRUE iff commands issued on the Redis connection succeed
    cache,            \* this.cache (NodeCache, useClones: false): id -> [rec, t, shared]
    redisStore,       \* contents of the durable tier: full key -> JSON text
    sessions,         \* this.sessions (fallback Map): id -> Session
    nextId,           \* number of ids uuidv4() has handed out
    calls,            \* pending async calls of the SessionManager API
    destroyedAt,      \* history: id -> time destroySession(id) returned, -1 if never
    lastAck,          \* history: the update that returned most recently
    observed,         \* history: per session, the lastAccessedAt of the latest result
    \* ---- LocalExecutionManager ----
    lemSessions,      \* this.sessions: id -> LocalSession
    execs,            \* the executeCode calls: one record per call
    portCache,        \* this.portCache: the set of ports marked true (in use)
    vsCalls,          \* pending createVSCodeSession calls: session id -> port found
    lemDestroys,      \* pending LocalExecutionManager.destroySession calls
    lastFreed,        \* history: the port freed most recently and when
    venvCache,        \* this.venvCache: the languages that have a base workspace
    lemInit,          \* the initialize() call: its position and the setups not yet settled
    baseFiles,        \* the source files inside the base workspaces: path -> text
    \* ---- RedisPool ----
    pool,             \* this.pool: the connections of the pool
    available,        \* this.available: the idle connections, in push order
    inUse,            \* this.inUse
    conns,            \* the Redis objects created so far: id -> [status, lastUsed]
    acquirers,        \* the callers of acquire() / execute()
    poolCtl,          \* the initialize() and shutdown() calls, and this.initialized
    mcpLimiter,       \* McpServer.rateLimiter: key -> record of the memory store
    secLimiter,       \* SecurityManager.rateLimiter: key -> record of the memory store
    issued,           \* history: per identity, the calls issued in its current 60 s window
    exhaustedAt,      \* history: per identity, when it was first refused (0: not refused)
    admit,            \* history: the entry point, caller and outcome of the last call
    \* ---- SecurityManager and the entry points that run user code ----
    validationCache,  \* SecurityManager.validationCache: key -> verdict
    tools             \* the execute_code / session/execute requests

cbVars == <<state, failureCount, successCount, lastFailureTime, now, inFlight,
            cbEvent, consecutiveExpected, successRun, cbResult>>

smVars == <<redis, redisUp, cache, redisStore, sessions, nextId, calls, destroyedAt, lastAck, observed>>

lemVars == <<lemSessions, execs>>

portVars == <<portCache, vsCalls, lemDestroys, lastFreed>>

provVars == <<venvCache, lemInit, baseFiles>>

poolVars == <<pool, available, inUse, conns, acquirers, poolCtl>>

admitVars == <<mcpLimiter, secLimiter, issued, exhaustedAt, admit>>

cbState == <<state, failureCount, successCount, lastFailureTime, inFlight, cbEvent,
             consecutiveExpected, successRun, cbResult>>

toolVars == <<validationCache, tools>>

\* everything but the breaker / the session manager / the execution manager
notCb == <<smVars, lemVars, portVars, admitVars, toolVars, provVars, poolVars>>
notSm == <<cbState, lemVars, portVars, admitVars, toolVars, provVars, poolVars>>
notLem == <<cbState, now, smVars, portVars, admitVars, toolVars, provVars, poolVars>>
notPort == <<cbState, smVars, execs, admitVars, toolVars, provVars, poolVars>>
notAdmit == <<cbState, smVars, lemVars, portVars, toolVars, provVars, poolVars>>
notProv == <<cbState, now, smVars, portVars, admitVars, toolVars, poolVars>>
notPool == <<cbState, smVars, lemVars, portVars, admitVars, toolVars, provVars>>

vars == <<cbVars, smVars, lemVars, portVars, admitVars, toolVars, provVars, poolVars>>

----------------------------------------------------------------------------
(* Bounds of the model *)

MaxInFlight == 2     \* concurrently pending operations of one breaker
MaxTicks == 5        \* clock advances explored
MaxSessions == 1     \* session ids created in one behaviour
MaxCalls == 2        \* concurrently pending SessionManager calls
MaxStoreTicks == 4   \* clock advances explored by the session store
MaxExecs == 2        \* executeCode calls in one behaviour
MaxBuildExecs == 2   \* sessions that run a build, one executeCode call each
MaxAcquirers == 2    \* concurrent callers of the connection pool
MaxConns == 3        \* Redis objects created in one behaviour
MaxPoolTicks == 1    \* clock steps while the pool is in use
MaxOutChunks == 161  \* full chunks of stdout one child delivers
MaxErrChunks == 1    \* full chunks of stderr one child delivers
MaxBlankChunks == 1  \* all-blank chunks per stream
MaxToolCalls == 2    \* requests that run user code in one behaviour
MaxMemo == 3         \* verdicts memoized in one behaviour
MaxScreenTicks == 2  \* clock advances explored by the screener
MaxVsSessions == 3   \* VS Code session ids in use at one time
MaxDestroyCalls == 2 \* concurrently pending destroySession calls of the execution manager
MaxPortsTaken == 2   \* ports marked in use at one time, leaked ones included
MaxPortTicks == 1    \* clock steps while VS Code sessions come and go
MaxOverLimit == 2    \* calls of one identity beyond the points of a window
MaxAdmitTicks == 6   \* refill windows that pass while calls are admitted

----------------------------------------------------------------------------
(* CircuitBreaker.ts *)

failureThreshold == 5        \* options.failureThreshold || 5
resetTimeout == 60000        \* options.resetTimeout || 60000
recoverSuccesses == 3        \* "Require 3 successes to close"

CircuitState == {"CLOSED", "OPEN", "HALF_OPEN"}

\* the clock is advanced in steps of half the reset timeout
TimeStep == resetTimeout \div 2

\* Date.now() at construction: late enough that Date.now() - 0 >= resetTimeout
StartTime == resetTimeout

Event(kind, expected) == [kind |-> kind, expected |-> expected]

shouldAttemptReset_Late == now - lastFailureTime > resetTimeout

shouldAttemptReset == now - lastFailureTime >= resetTimeout

\* execute(), up to the await of the operation: the OPEN check
ExecuteInvoke ==
    /\ inFlight < MaxInFlight
    /\ \/ state # "OPEN" /\ UNCHANGED state
       \/ state = "OPEN" /\ shouldAttemptReset /\ state' = "HALF_OPEN"
    /\ inFlight' = inFlight + 1
    /\ cbEvent' = Event("invoke", FALSE)
    /\ successRun' = IF state = "OPEN" THEN 0 ELSE successRun
    /\ UNCHANGED <<failureCount, successCount, lastFailureTime, now, consecutiveExpected,
                   cbResult>>
    /\ UNCHANGED notCb

\* execute() while OPEN and before the reset timeout: throws, operation not called
ExecuteReject ==
    /\ state = "OPEN"
    /\ ~shouldAttemptReset
    /\ cbEvent' = Event("reject", FALSE)
    /\ cbResult' = "threw circuit open"
    /\ UNCHANGED <<state, failureCount, successCount, lastFailureTime, now, inFlight,
                   consecutiveExpected, successRun>>
    /\ UNCHANGED notCb

onSuccess_NoReset ==
    /\ failureCount' = failureCount
    /\ IF state = "HALF_OPEN"
       THEN IF successCount + 1 >= recoverSuccesses
            THEN state' = "CLOSED" /\ successCount' = 0
            ELSE state' = state /\ successCount' = successCount + 1
       ELSE UNCHANGED <<state, successCount>>
    /\ UNCHANGED lastFailureTime

onSuccess ==
    /\ failureCount' = 0
    /\ IF state = "HALF_OPEN"
       THEN IF successCount + 1 >= recoverSuccesses
            THEN state' = "CLOSED" /\ successCount' = 0
            ELSE state' = state /\ successCount' = successCount + 1
       ELSE UNCHANGED <<state, successCount>>
    /\ UNCHANGED lastFailureTime

onFailure_OffByOne(expected) ==
    IF ~expected
    THEN UNCHANGED <<state, failureCount, successCount, lastFailureTime>>
    ELSE /\ failureCount' = failureCount + 1
         /\ lastFailureTime' = now
         /\ IF state = "HALF_OPEN"
            THEN state' = "OPEN" /\ successCount' = 0
            ELSE IF failureCount + 1 > failureThreshold
                 THEN state' = "OPEN" /\ UNCHANGED successCount
                 ELSE UNCHANGED <<state, successCount>>

\* expected = this.options.expectedErrors(error)
onFailure(expected) ==
    IF ~expected
    THEN UNCHANGED <<state, failureCount, successCount, lastFailureTime>>
    ELSE /\ failureCount' = failureCount + 1
         /\ lastFailureTime' = now
         /\ IF state = "HALF_OPEN"
            THEN state' = "OPEN" /\ successCount' = 0
            ELSE IF failureCount + 1 >= failureThreshold
                 THEN state' = "OPEN" /\ UNCHANGED successCount
                 ELSE UNCHANGED <<state, successCount>>

\* the awaited operation resolves
OperationSucceeds ==
    /\ inFlight > 0
    /\ inFlight' = inFlight - 1
    /\ onSuccess
    /\ cbEvent' = Event("success", FALSE)
    /\ cbResult' = "returned result"
    /\ consecutiveExpected' = 0
    /\ successRun' = IF state = "HALF_OPEN" /\ state' = "HALF_OPEN" THEN successRun + 1 ELSE 0
    /\ UNCHANGED now
    /\ UNCHANGED notCb

OperationFails_CountsAll ==
    /\ inFlight > 0
    /\ \E expected \in BOOLEAN :
          /\ onFailure(TRUE)
          /\ cbEvent' = Event("failure", expected)
          /\ consecutiveExpected' = IF expected THEN consecutiveExpected + 1
                                                ELSE consecutiveExpected
    /\ cbResult' = "threw error"
    /\ successRun' = 0
    /\ inFlight' = inFlight - 1
    /\ UNCHANGED now
    /\ UNCHANGED notCb

\* the awaited operation rejects with an error
OperationFails ==
    /\ inFlight > 0
    /\ \E expected \in BOOLEAN :
          /\ onFailure(expected)
          /\ cbEvent' = Event("failure", expected)
          /\ consecutiveExpected' = IF expected THEN consecutiveExpected + 1
                                                ELSE consecutiveExpected
    /\ cbResult' = "threw error"
    /\ successRun' = 0
    /\ inFlight' = inFlight - 1
    /\ UNCHANGED now
    /\ UNCHANGED notCb

reset ==
    /\ state' = "CLOSED"
    /\ failureCount' = 0
    /\ successCount' = 0
    /\ lastFailureTime' = 0
    /\ cbEvent' = Event("reset", FALSE)
    /\ consecutiveExpected' = 0
    /\ successRun' = 0
    /\ UNCHANGED <<now, inFlight, cbResult>>
    /\ UNCHANGED notCb

Tick ==
    /\ now < StartTime + MaxTicks * TimeStep
    /\ now' = now + TimeStep
    /\ cbEvent' = Event("tick", FALSE)
    /\ UNCHANGED <<state, failureCount, successCount, lastFailureTime, inFlight,
                   consecutiveExpected, successRun, cbResult>>
    /\ UNCHANGED notCb

----------------------------------------------------------------------------
(* SessionManager.ts *)

stdTTL == 900              \* NodeCache stdTTL, seconds
storeTTL == 600            \* cache TTL used by storeSession, seconds
checkperiod == 300         \* NodeCache checkperiod, seconds
keyPrefix == "mcp:"        \* ioredis keyPrefix

SessionStatus == {"creating", "running", "stopped", "error"}
Clients == {"clientA", "clientB"}
SessionIds == 1..MaxSessions
Calls == 1..MaxCalls

\* Partial<Session> passed by updateSessionStatus / setSessionEndpoints / setContainerId
Updates ==
    [field : {"status"}, value : SessionStatus]
      \cup [field : {"endpoints"}, value : {"ep"}]
      \cup [field : {"containerId"}, value : {"ctr"}]

\* the updates the specifications issue
UpdateInputs ==
    {[field |-> "status", value |-> "running"], [field |-> "status", value |-> "stopped"],
     [field |-> "endpoints", value |-> "ep"]}

NoUpdate == [field |-> "none", value |-> "none"]

Put(f, k, v) == [x \in DOMAIN f \cup {k} |-> IF x = k THEN v ELSE f[x]]
Del(f, k) == [x \in DOMAIN f \ {k} |-> f[x]]

RECURSIVE SortedSeq(_)
SortedSeq(S) ==
    IF S = {} THEN <<>>
    ELSE LET m == CHOOSE x \in S : \A y \in S : x <= y
         IN <<m>> \o SortedSeq(S \ {m})

\* the Session literal built by createSession
NewSession(id, client) ==
    [id |-> id, status |-> "creating", endpoints |-> "{}", containerId |-> "undefined",
     lastAccessedAt |-> now, clientId |-> client]

\* JSON.stringify(session): Date fields become ISO strings
Stringify(rec) ==
    [rec EXCEPT !.lastAccessedAt = <<"iso", @>>]

\* JSON.parse(sessionData) followed by new Date(session.lastAccessedAt)
Parse(data) ==
    [data EXCEPT !.lastAccessedAt = @[2]]

\* ioredis prepends keyPrefix to the key of GET / SETEX / DEL
RedisKey(id) == <<keyPrefix, "session:", id>>

\* redis.keys('session:*'): ioredis does not apply keyPrefix to the pattern of
\* KEYS, so the pattern is matched against the full key names
RedisKeys == {k \in DOMAIN redisStore : k[1] = "session:"}

\* NodeCache.get: an entry whose ttl timestamp lies before Date.now() is gone
CacheGet(id) ==
    IF id \in DOMAIN cache /\ ~(cache[id].t < now) THEN <<cache[id].rec>> ELSE <<>>

\* NodeCache.set(key, value, ttl); useClones is false, so the entry is the very
\* object passed in: shared tells whether this.sessions holds the same object
CacheSet(c, id, rec, ttl, shared) ==
    Put(c, id, [rec |-> rec, t |-> now + ttl * 1000, shared |-> shared])

IdleCall ==
    [op |-> "idle", pc |-> "idle", sid |-> 0, upd |-> NoUpdate, snap |-> <<>>,
     reply |-> <<>>, client |-> "", acc |-> <<>>, keys |-> {},
     fail |-> FALSE,    \* the Redis command the call awaits has failed
     d |-> 0,           \* the destroySession call of the execution manager it awaits
     out |-> <<>>,      \* the answer of the tool call this slot served last
     held |-> {},       \* history: the ids listSessions could see when it was called
     err |-> ""]        \* the operation whose call in this slot last rejected

NoAck == [sid |-> 0, upd |-> NoUpdate]

\* a command issued on the Redis connection now is rejected
RedisFails == redis /\ ~redisUp

\* a call whose promise rejected: the slot is free again and records the error
Threw(op, id) == [IdleCall EXCEPT !.err = op, !.sid = id]

\* history: a call resolves to the records recs, which its caller reads before
\* any other handler runs; of two records of one session the later one in the
\* result is the one noted.  Records a pending listSessions took from the
\* cache are objects other handlers may still touch and are not noted.
Observe(recs) ==
    [s \in SessionIds |->
        IF \E i \in DOMAIN recs : recs[i].id = s
        THEN recs[CHOOSE i \in DOMAIN recs :
                    recs[i].id = s /\ \A j \in DOMAIN recs : recs[j].id = s => j <= i].lastAccessedAt
        ELSE observed[s]]

\* storeSession: the three writes are issued in the same event-loop segment;
\* commands on the one ioredis connection execute in the order issued.  When
\* the setex is rejected, Promise.all rejects and storeSession rethrows.
storeSession(rec) ==
    /\ cache' = CacheSet(cache, rec.id, rec, storeTTL, TRUE)
    /\ redisStore' = IF redis /\ redisUp
                     THEN Put(redisStore, RedisKey(rec.id), Stringify(rec))
                     ELSE redisStore
    /\ sessions' = Put(sessions, rec.id, rec)

\* createSession: a fresh uuid, status 'creating', stored in every tier; the
\* rejection of storeSession propagates to the caller
createSession(c, client) ==
    /\ calls[c].op = "idle"
    /\ nextId < MaxSessions
    /\ nextId' = nextId + 1
    /\ storeSession(NewSession(nextId + 1, client))
    /\ calls' = [calls EXCEPT ![c] = IF RedisFails THEN Threw("create", nextId + 1)
                                                   ELSE IdleCall]
    /\ UNCHANGED <<redis, redisUp, destroyedAt, lastAck, observed, now>>
    /\ UNCHANGED notSm

\* getSession, fallback branch: this.sessions.get, touch, cache.set
FallbackRead(c, id) ==
    IF id \in DOMAIN sessions
    THEN LET rec == [sessions[id] EXCEPT !.lastAccessedAt = now] IN
         /\ sessions' = Put(sessions, id, rec)
         /\ cache' = CacheSet(cache, id, rec, stdTTL, TRUE)
         /\ calls' = [calls EXCEPT ![c].pc = "got", ![c].snap = <<rec>>]
    ELSE /\ calls' = [calls EXCEPT ![c].pc = "got", ![c].snap = <<>>]
         /\ UNCHANGED <<sessions, cache>>

\* getSession up to its first await, called directly (op = "get") or by
\* updateSession (op = "update")
getSessionBegin(c, op, id, upd) ==
    /\ calls[c].op = "idle"
    /\ id \in 1..nextId
    /\ LET started == [IdleCall EXCEPT !.op = op, !.sid = id, !.upd = upd]
           hit == CacheGet(id)
       IN IF hit # <<>>
          THEN \* cachedSession.lastAccessedAt = new Date(); cache.set(id, cachedSession)
               LET rec == [hit[1] EXCEPT !.lastAccessedAt = now] IN
               /\ cache' = CacheSet(cache, id, rec, stdTTL, cache[id].shared)
               /\ sessions' = IF cache[id].shared THEN Put(sessions, id, rec) ELSE sessions
               /\ calls' = [calls EXCEPT ![c] = [started EXCEPT !.pc = "got", !.snap = <<rec>>]]
          ELSE IF redis
          THEN \* await this.redis.get(`session:${id}`)
               /\ calls' = [calls EXCEPT ![c] =
                     [started EXCEPT !.pc = "redisGet",
                                     !.fail = ~redisUp,
                                     !.reply = IF redisUp /\ RedisKey(id) \in DOMAIN redisStore
                                               THEN <<redisStore[RedisKey(id)]>> ELSE <<>>]]
               /\ UNCHANGED <<cache, sessions>>
          ELSE /\ IF id \in DOMAIN sessions
                  THEN LET rec == [sessions[id] EXCEPT !.lastAccessedAt = now] IN
                       /\ sessions' = Put(sessions, id, rec)
                       /\ cache' = CacheSet(cache, id, rec, stdTTL, TRUE)
                       /\ calls' = [calls EXCEPT ![c] =
                                       [started EXCEPT !.pc = "got", !.snap = <<rec>>]]
                  ELSE /\ calls' = [calls EXCEPT ![c] = [started EXCEPT !.pc = "got"]]
                       /\ UNCHANGED <<sessions, cache>>
    /\ observed' = IF op = "get" /\ calls'[c].pc = "got" THEN Observe(calls'[c].snap)
                                                          ELSE observed
    /\ UNCHANGED <<redis, redisUp, redisStore, nextId, destroyedAt, lastAck, now>>
    /\ UNCHANGED notSm

getSession(c, id) == getSessionBegin(c, "get", id, NoUpdate)

\* updateSessionStatus / setSessionEndpoints / setContainerId -> updateSession
updateSession(c, id, upd) == getSessionBegin(c, "update", id, upd)

\* getSession after await this.redis.get
getSessionRedisReply(c) ==
    /\ calls[c].pc = "redisGet"
    /\ IF calls[c].fail
       THEN \* catch: return null
            /\ calls' = [calls EXCEPT ![c].pc = "got", ![c].snap = <<>>, ![c].fail = FALSE]
            /\ UNCHANGED <<sessions, cache>>
       ELSE IF calls[c].reply # <<>>
       THEN LET rec == Parse(calls[c].reply[1]) IN
            /\ cache' = CacheSet(cache, calls[c].sid, rec, stdTTL, FALSE)
            /\ calls' = [calls EXCEPT ![c].pc = "got", ![c].snap = <<rec>>, ![c].reply = <<>>]
            /\ UNCHANGED sessions
       ELSE FallbackRead(c, calls[c].sid)
    /\ observed' = IF calls[c].op = "get" THEN Observe(calls'[c].snap) ELSE observed
    /\ UNCHANGED <<redis, redisUp, redisStore, nextId, destroyedAt, lastAck, now>>
    /\ UNCHANGED notSm

\* getSession resolves to its caller
getSessionReturn(c) ==
    /\ calls[c].op = "get"
    /\ calls[c].pc = "got"
    /\ calls' = [calls EXCEPT ![c] = IdleCall]
    /\ UNCHANGED <<redis, redisUp, cache, redisStore, sessions, nextId, destroyedAt, lastAck, observed, now>>
    /\ UNCHANGED notSm

\* updateSession after await this.getSession: merge and store
updateSessionStore(c) ==
    /\ calls[c].op = "update"
    /\ calls[c].pc = "got"
    /\ IF calls[c].snap = <<>>
       THEN \* return null
            /\ calls' = [calls EXCEPT ![c] = IdleCall]
            /\ UNCHANGED <<cache, redisStore, sessions>>
       ELSE LET updatedSession ==
                    [calls[c].snap[1] EXCEPT ![calls[c].upd.field] = calls[c].upd.value,
                                             !.lastAccessedAt = now]
            IN /\ storeSession(updatedSession)
               /\ calls' = [calls EXCEPT ![c].pc = "stored", ![c].snap = <<updatedSession>>,
                                         ![c].fail = RedisFails]
    /\ UNCHANGED <<redis, redisUp, nextId, destroyedAt, lastAck, observed, now>>
    /\ UNCHANGED notSm

\* updateSession after await this.storeSession: return updatedSession, or
\* propagate the rejection
updateSessionReturn(c) ==
    /\ calls[c].pc = "stored"
    /\ IF calls[c].fail
       THEN /\ calls' = [calls EXCEPT ![c] = Threw("update", calls[c].sid)]
            /\ UNCHANGED <<lastAck, observed>>
       ELSE /\ lastAck' = [sid |-> calls[c].sid, upd |-> calls[c].upd]
            /\ observed' = Observe(calls[c].snap)
            /\ calls' = [calls EXCEPT ![c] = IdleCall]
    /\ UNCHANGED <<redis, redisUp, cache, redisStore, sessions, nextId, destroyedAt, now>>
    /\ UNCHANGED notSm

\* destroySession up to await Promise.all: the three removals are issued at once
DropSession(id) ==
    /\ cache' = Del(cache, id)
    /\ redisStore' = IF redis /\ redisUp THEN Del(redisStore, RedisKey(id)) ELSE redisStore
    /\ sessions' = Del(sessions, id)

destroySession(c, id) ==
    /\ calls[c].op = "idle"
    /\ id \in 1..nextId
    /\ DropSession(id)
    /\ calls' = [calls EXCEPT ![c] =
                    [IdleCall EXCEPT !.op = "destroy", !.pc = "destroying", !.sid = id,
                                     !.fail = RedisFails]]
    /\ UNCHANGED <<redis, redisUp, nextId, destroyedAt, lastAck, observed, now>>
    /\ UNCHANGED notSm

\* destroySession after await Promise.all: return, or rethrow the rejection
\* of the Redis del
destroySessionReturn(c) ==
    /\ calls[c].pc = "destroying"
    /\ IF calls[c].fail
       THEN /\ calls' = [calls EXCEPT ![c] = Threw("destroy", calls[c].sid)]
            /\ UNCHANGED destroyedAt
       ELSE /\ destroyedAt' = [destroyedAt EXCEPT ![calls[c].sid] = now]
            /\ calls' = [calls EXCEPT ![c] = IdleCall]
    /\ UNCHANGED <<redis, redisUp, cache, redisStore, sessions, nextId, lastAck, observed, now>>
    /\ UNCHANGED notSm

Owned(rec, client) == client = "" \/ rec.clientId = client

\* the ids of the sessions of a client that the near cache or the durable tier
\* (the fallback map when no durable tier is configured) holds
HeldBy(client) ==
    {s \in SessionIds :
        \/ CacheGet(s) # <<>> /\ Owned(CacheGet(s)[1], client)
        \/ /\ redis
           /\ RedisKey(s) \in DOMAIN redisStore
           /\ Owned(Parse(redisStore[RedisKey(s)]), client)
        \/ /\ ~redis
           /\ s \in DOMAIN sessions
           /\ Owned(sessions[s], client)}

\* listSessions up to its first await: the cache scan, then either
\* redis.keys('session:*') or the scan of this.sessions
listSessions(c, client) ==
    /\ calls[c].op = "idle"
    /\ LET hits == {id \in DOMAIN cache : CacheGet(id) # <<>> /\ Owned(cache[id].rec, client)}
           fromCache == [i \in 1..Cardinality(hits) |-> cache[SortedSeq(hits)[i]].rec]
           rest == {id \in DOMAIN sessions : id \notin hits /\ Owned(sessions[id], client)}
           fromMemory == [i \in 1..Cardinality(rest) |-> sessions[SortedSeq(rest)[i]]]
           started == [IdleCall EXCEPT !.op = "list", !.client = client,
                                       !.held = HeldBy(client)]
       IN IF redis
          THEN calls' = [calls EXCEPT ![c] =
                   [started EXCEPT !.pc = "listKeys", !.acc = fromCache,
                                   !.fail = ~redisUp,
                                   !.keys = IF redisUp
                                            THEN {k \in RedisKeys : k[2] \notin hits}
                                            ELSE {}]]
          ELSE calls' = [calls EXCEPT ![c] =
                   [started EXCEPT !.pc = "listed", !.acc = fromCache \o fromMemory]]
    /\ observed' = IF calls'[c].pc = "listed" THEN Observe(calls'[c].acc) ELSE observed
    /\ UNCHANGED <<redis, redisUp, cache, redisStore, sessions, nextId, destroyedAt, lastAck, now>>
    /\ UNCHANGED notSm

\* listSessions after await redis.keys: pipeline.get(key) for every key whose
\* id was not taken from the cache, then await pipeline.exec()
listSessionsPipeline(c) ==
    /\ calls[c].pc = "listKeys"
    /\ LET full == {<<keyPrefix>> \o k : k \in calls[c].keys}
           found == {f \in full : f \in DOMAIN redisStore}
       IN IF calls[c].fail \/ ~redisUp
          THEN \* catch: return []
               calls' = [calls EXCEPT ![c].pc = "listed", ![c].keys = {}, ![c].acc = <<>>,
                                      ![c].fail = FALSE]
          ELSE calls' = [calls EXCEPT ![c].pc = "listExec", ![c].keys = {},
                           ![c].reply = [i \in 1..Cardinality(found) |->
                                            redisStore[SortedSeq(found)[i]]]]
    /\ UNCHANGED <<redis, redisUp, cache, redisStore, sessions, nextId, destroyedAt, lastAck, observed, now>>
    /\ UNCHANGED notSm

RECURSIVE CacheAll(_, _)
CacheAll(c, recs) ==
    IF recs = <<>> THEN c
    ELSE CacheAll(CacheSet(c, recs[1].id, recs[1], stdTTL, FALSE), Tail(recs))

\* listSessions after await pipeline.exec: parse, filter, push and cache.set
listSessionsResults(c) ==
    /\ calls[c].pc = "listExec"
    /\ LET parsed == [i \in 1..Len(calls[c].reply) |-> Parse(calls[c].reply[i])]
           mine == SelectSeq(parsed, LAMBDA r : Owned(r, calls[c].client))
       IN /\ cache' = CacheAll(cache, mine)
          /\ calls' = [calls EXCEPT ![c].pc = "listed", ![c].reply = <<>>,
                                    ![c].acc = @ \o mine]
          /\ observed' = Observe(mine)
    /\ UNCHANGED <<redis, redisUp, redisStore, sessions, nextId, destroyedAt, lastAck, now>>
    /\ UNCHANGED notSm

listSessionsReturn(c) ==
    /\ calls[c].pc = "listed"
    /\ calls' = [calls EXCEPT ![c] = IdleCall]
    /\ UNCHANGED <<redis, redisUp, cache, redisStore, sessions, nextId, destroyedAt, lastAck, observed, now>>
    /\ UNCHANGED notSm

\* The clock advances by one NodeCache check period; the periodic check deletes
\* the expired entries.  Pending calls settle within commandTimeout (3 s), so
\* none is pending across a period.
StoreTick ==
    /\ \A c \in Calls : calls[c].op = "idle"
    /\ now < StartTime + MaxStoreTicks * checkperiod * 1000
    /\ now' = now + checkperiod * 1000
    /\ cache' = [id \in {k \in DOMAIN cache : ~(cache[k].t < now')} |-> cache[id]]
    /\ UNCHANGED <<redis, redisUp, redisStore, sessions, nextId, calls, destroyedAt, lastAck, observed>>
    /\ UNCHANGED notSm

\* the Redis server becomes unreachable: commands issued from now on are
\* rejected (connection error, or commandTimeout after 3 s)
RedisOutage ==
    /\ redis
    /\ redisUp
    /\ redisUp' = FALSE
    /\ UNCHANGED <<redis, cache, redisStore, sessions, nextId, calls, destroyedAt, lastAck, observed, now>>
    /\ UNCHANGED notSm

\* the Redis server is reachable again
RedisRecovers ==
    /\ ~redisUp
    /\ redisUp' = TRUE
    /\ UNCHANGED <<redis, cache, redisStore, sessions, nextId, calls, destroyedAt, lastAck, observed, now>>
    /\ UNCHANGED notSm

----------------------------------------------------------------------------
(* LocalExecutionManager.ts *)

concurrency == 10          \* parseInt(process.env.MAX_CONCURRENT_EXECUTIONS || '10')

\* executeCode calls explored when the execution queue is loaded
MaxLoad == concurrency + 1

ExecIds == 1..MaxLoad

\* keys of SUPPORTED_LANGUAGES (types/McpTypes.ts)
SupportedLanguages ==
    {"python", "javascript", "typescript", "java", "c", "cpp", "csharp", "rust", "go",
     "php", "perl", "ruby", "lua", "swift", "objc"}

\* the languages getCommandAndEnv has a case for
RunnableLanguages ==
    {"python", "javascript", "typescript", "java", "rust", "go", "c", "cpp"}

\* exit statuses a child may end with on its own
ExitStatuses == {0, 1, 124}

\* a source text is a sequence of fragments
Hello == <<"print('hi')">>

\* a collected output string, kept as its length with the lengths of its
\* leading and trailing runs of white space; blanks counts the all-blank chunks
NoOutput == [len |-> 0, lead |-> 0, trail |-> 0, blanks |-> 0]

\* the chunks a 'data' event may carry: a full pipe read of visible characters,
\* or a lone newline
Chunks == {[len |-> 65536, blank |-> FALSE], [len |-> 1, blank |-> TRUE]}

\* buf += data.toString()
Concat(buf, chunk) ==
    IF chunk.blank
    THEN [buf EXCEPT !.len = @ + chunk.len,
                     !.lead = IF buf.lead = buf.len THEN @ + chunk.len ELSE @,
                     !.trail = @ + chunk.len]
    ELSE [buf EXCEPT !.len = @ + chunk.len, !.trail = 0]

\* buf.trim().length
Trim(buf) == IF buf.lead = buf.len THEN 0 ELSE buf.len - buf.lead - buf.trail

\* '\n\nExecution timed out'
TimedOutSuffix(buf) ==
    Concat(Concat(buf, [len |-> 2, blank |-> TRUE]),
           [len |-> Len("Execution timed out"), blank |-> FALSE])

\* the initialize() call: initialized = false, nothing awaited; failed collects
\* the languages whose setup function caught an error
NotInitialized == [pc |-> "new", pending |-> {}, failed |-> {}]

IdleExec ==
    [pc |-> "idle", sid |-> 0, code |-> <<>>, lang |-> "",
     child |-> "none",       \* the spawned ChildProcess: none / running / exited / signalled
     killed |-> FALSE,       \* childProcess.killed
     ignoresTerm |-> FALSE,  \* the user program ignores SIGTERM
     sig |-> "none",         \* the signal last delivered to the child
     sigkill |-> FALSE,      \* kill('SIGKILL') was called
     timer |-> "off",        \* timeoutHandle
     grace |-> "off",        \* the inner 5 s timer
     aliveAtGrace |-> FALSE, \* history: the child was running when the 5 s timer fired
     by |-> "none",          \* which resolve() settled the promise
     exitCode |-> -1,
     file |-> FALSE,         \* the source file at filePath exists
     cwd |-> "",             \* the cwd the child is spawned with: session / base
     base |-> <<>>,          \* the path in the base workspace the command copies the source to
     phase |-> "",           \* how far the spawned command has come: spawned / copied / ran
     ran |-> <<>>,           \* the source text the toolchain was run on
     stdout |-> NoOutput,    \* let stdout = ''
     stderr |-> NoOutput,    \* let stderr = ''
     result |-> [stdout |-> 0, stderr |-> 0]]   \* lengths of the resolved strings

\* createExecutionSession: mkdir the workspace, register the LocalSession
createExecutionSession(sid, lang) ==
    /\ lang \in SupportedLanguages
    /\ lemSessions' = Put(lemSessions, sid, [language |-> lang, port |-> 0])
    /\ UNCHANGED execs
    /\ UNCHANGED notLem

\* executeCode up to await fs.writeFile: the two lookups, then the write is issued
ExecStart(e, sid, code, lang) ==
    /\ execs[e].pc = "idle"
    /\ IF e = 1 THEN TRUE ELSE execs[e - 1].pc # "idle"
    /\ IF sid \notin DOMAIN lemSessions \/ lang \notin SupportedLanguages
       THEN execs' = [execs EXCEPT ![e] =
                        [IdleExec EXCEPT !.pc = "threw", !.sid = sid, !.code = code,
                                         !.lang = lang]]
       ELSE execs' = [execs EXCEPT ![e] =
                        [IdleExec EXCEPT !.pc = "writing", !.sid = sid, !.code = code,
                                         !.lang = lang]]

executeCode(e, sid, code, lang) ==
    /\ ExecStart(e, sid, code, lang)
    /\ UNCHANGED lemSessions
    /\ UNCHANGED notLem

\* the languages whose setup function the model follows at startup
ProvisionedLanguages == {"typescript", "rust", "php"}

\* what the fallback of the rust setup writes to src/main.rs
HelloWorld == <<"fn main() { println!(\"Hello, world!\"); }">>

\* initialize() up to await Promise.allSettled(setupPromises):
\* initializeWorkspaces, then every setup function is started
initialize(ok) ==
    /\ lemInit.pc = "new"
    /\ lemInit' = IF ok THEN [lemInit EXCEPT !.pc = "setup", !.pending = ProvisionedLanguages]
                        ELSE [lemInit EXCEPT !.pc = "threw"]
    /\ UNCHANGED <<venvCache, baseFiles, lemVars>>
    /\ UNCHANGED notProv

setupLanguage_Rethrows(language, ok) ==
    /\ lemInit.pc = "setup"
    /\ language \in lemInit.pending
    /\ lemInit' = [lemInit EXCEPT !.pending = @ \ {language},
                                  !.failed = IF ok THEN @ ELSE @ \cup {language},
                                  !.pc = IF ok THEN @ ELSE "threw"]
    /\ venvCache' = IF ok THEN venvCache \cup {language} ELSE venvCache
    /\ baseFiles' = IF ok /\ language = "rust"
                    THEN Put(baseFiles, <<"rust", "main", 0>>, HelloWorld)
                    ELSE baseFiles
    /\ UNCHANGED lemVars
    /\ UNCHANGED notProv

\* setupVirtualEnvironments: the setup function of one language settles; it
\* registers the base workspace, or catches its error and only logs it
setupLanguage(language, ok) ==
    /\ lemInit.pc = "setup"
    /\ language \in lemInit.pending
    /\ lemInit' = [lemInit EXCEPT !.pending = @ \ {language},
                                  !.failed = IF ok THEN @ ELSE @ \cup {language}]
    /\ venvCache' = IF ok THEN venvCache \cup {language} ELSE venvCache
    /\ baseFiles' = IF ok /\ language = "rust"
                    THEN Put(baseFiles, <<"rust", "main", 0>>, HelloWorld)
                    ELSE baseFiles
    /\ UNCHANGED lemVars
    /\ UNCHANGED notProv

\* initialize() after Promise.allSettled: installLanguagePackages and
\* cleanupOldSessions catch their own errors, then initialized = true
initializeDone ==
    /\ lemInit.pc = "setup"
    /\ lemInit.pending = {}
    /\ lemInit' = [lemInit EXCEPT !.pc = "ready"]
    /\ UNCHANGED <<venvCache, baseFiles, lemVars>>
    /\ UNCHANGED notProv

\* getCommandAndEnv: the cwd of the command, and the path inside the base
\* workspace its shell line copies the source file to (<<>>: no copy). The
\* file name code_<millis>_<random> of call e is unique to the call.
getCommandAndEnv(e, language) ==
    LET languageVenvPath == language \in venvCache
    IN IF language \in {"python", "javascript"} \/ ~languageVenvPath
       THEN [cwd |-> "session", base |-> <<>>]
       ELSE IF language \in {"rust", "go"}
       THEN [cwd |-> "base", base |-> <<language, "main", 0>>]
       ELSE [cwd |-> "base", base |-> <<language, "code", e>>]

\* executeCode after await fs.writeFile, and executeLanguageCode up to the end
\* of the Promise executor: spawn, the 'close' handlers, the timeout timer
writeFileDone(e, ok, ignoresTerm) ==
    /\ execs[e].pc = "writing"
    /\ IF ~ok
       THEN \* catch: return { stdout: '', stderr: error.message, exitCode: 1 }
            execs' = [execs EXCEPT ![e].pc = "settled", ![e].by = "error", ![e].exitCode = 1,
                                   ![e].result = [stdout |-> 0,
                                                  stderr |-> Len("ENOENT: no such file or directory")]]
       ELSE IF execs[e].lang \notin RunnableLanguages
       THEN \* getCommandAndEnv throws: resolve({ stdout: '', stderr: error.message, exitCode: 1 })
            execs' = [execs EXCEPT ![e].pc = "settled", ![e].by = "error", ![e].exitCode = 1,
                                   ![e].file = TRUE,
                                   ![e].result =
                                       [stdout |-> 0,
                                        stderr |-> Len("Execution not implemented for language: ")
                                                     + Len(execs[e].lang)]]
       ELSE execs' = [execs EXCEPT ![e].pc = "running", ![e].child = "running",
                                   ![e].file = TRUE,
                                   ![e].cwd = getCommandAndEnv(e, execs[e].lang).cwd,
                                   ![e].base = getCommandAndEnv(e, execs[e].lang).base,
                                   ![e].phase = "spawned",
                                   ![e].ignoresTerm = ignoresTerm, ![e].timer = "armed"]
    /\ UNCHANGED lemSessions
    /\ UNCHANGED notLem

\* the shell line of the child copies the source file into the base workspace
childCopy(e) ==
    /\ execs[e].child = "running"
    /\ execs[e].phase = "spawned"
    /\ execs[e].base # <<>>
    /\ baseFiles' = Put(baseFiles, execs[e].base, execs[e].code)
    /\ execs' = [execs EXCEPT ![e].phase = "copied"]
    /\ UNCHANGED <<lemSessions, venvCache, lemInit>>
    /\ UNCHANGED notProv

\* the child runs the toolchain: on the source file in the session workspace,
\* or on what the path in the base workspace holds at that moment
childRun(e) ==
    /\ execs[e].child = "running"
    /\ \/ execs[e].phase = "copied"
       \/ execs[e].phase = "spawned" /\ execs[e].base = <<>>
    /\ execs' = [execs EXCEPT ![e].phase = "ran",
                              ![e].ran = IF execs[e].base = <<>> THEN execs[e].code
                                         ELSE baseFiles[execs[e].base]]
    /\ UNCHANGED lemSessions
    /\ UNCHANGED notLem

\* the 'data' handlers of childProcess.stdout and childProcess.stderr: the
\* chunk is appended to the collected string. Once the promise is settled the
\* strings are never read again, so later appends are not tracked.
childData(e, stream, chunk) ==
    /\ execs[e].child = "running"
    /\ execs[e].by = "none"
    /\ IF stream = "stdout"
       THEN /\ execs[e].stdout.len < MaxOutChunks * 65536
            /\ chunk.blank => execs[e].stdout.blanks < MaxBlankChunks
            /\ execs' = [execs EXCEPT ![e].stdout =
                  [Concat(@, chunk) EXCEPT !.blanks = IF chunk.blank THEN @ + 1 ELSE @]]
       ELSE /\ execs[e].stderr.len < MaxErrChunks * 65536
            /\ chunk.blank => execs[e].stderr.blanks < MaxBlankChunks
            /\ execs' = [execs EXCEPT ![e].stderr =
                  [Concat(@, chunk) EXCEPT !.blanks = IF chunk.blank THEN @ + 1 ELSE @]]
    /\ UNCHANGED lemSessions
    /\ UNCHANGED notLem

\* the child ends on its own with the given status: 'close' resolves with
\* exitCode || 0 (a no-op when already resolved) and clears the timeout
childExit(e, status) ==
    /\ execs[e].child = "running"
    /\ execs' = [execs EXCEPT
          ![e].child = "exited",
          ![e].timer = IF @ = "armed" THEN "off" ELSE @,
          ![e].pc = IF execs[e].by = "none" THEN "settled" ELSE @,
          ![e].by = IF @ = "none" THEN "close" ELSE @,
          ![e].exitCode = IF execs[e].by = "none" THEN status ELSE @,
          ![e].result = IF execs[e].by = "none"
                        THEN [stdout |-> Trim(execs[e].stdout), stderr |-> Trim(execs[e].stderr)]
                        ELSE @]
    /\ UNCHANGED lemSessions
    /\ UNCHANGED notLem

\* ChildProcess.kill(signal): the signal is delivered to a running child and
\* the killed flag is set once a signal has been delivered
Kill(x, signal) ==
    IF x.child = "running"
    THEN [x EXCEPT !.sig = signal, !.killed = TRUE]
    ELSE x

\* the timeout callback: SIGTERM, arm the 5 s timer, resolve with 124
timeoutFires(e) ==
    /\ execs[e].timer = "armed"
    /\ LET x == execs[e]
           signalled == IF x.child # "none" /\ ~x.killed
                        THEN [Kill(x, "SIGTERM") EXCEPT !.grace = "armed"]
                        ELSE x
       IN execs' = [execs EXCEPT ![e] =
             [signalled EXCEPT !.timer = "fired",
                               !.pc = IF x.by = "none" THEN "settled" ELSE @,
                               !.by = IF @ = "none" THEN "timeout" ELSE @,
                               !.exitCode = IF x.by = "none" THEN 124 ELSE @,
                               !.result = IF x.by = "none"
                                          THEN [stdout |-> Trim(x.stdout),
                                                stderr |-> Trim(TimedOutSuffix(x.stderr))]
                                          ELSE @]]
    /\ UNCHANGED lemSessions
    /\ UNCHANGED notLem

\* the 5 s callback: SIGKILL unless childProcess.killed
graceFires(e) ==
    /\ execs[e].grace = "armed"
    /\ LET x == [execs[e] EXCEPT !.grace = "fired",
                                 !.aliveAtGrace = (execs[e].child = "running")]
       IN execs' = [execs EXCEPT ![e] =
             IF ~x.killed THEN [Kill(x, "SIGKILL") EXCEPT !.sigkill = TRUE] ELSE x]
    /\ UNCHANGED lemSessions
    /\ UNCHANGED notLem

\* the child is ended by a delivered signal; 'close' then runs as in childExit
\* with a null exit code
childKilled(e) ==
    /\ execs[e].child = "running"
    /\ \/ execs[e].sig = "SIGKILL"
       \/ execs[e].sig = "SIGTERM" /\ ~execs[e].ignoresTerm
    /\ execs' = [execs EXCEPT
          ![e].child = "signalled",
          ![e].timer = IF @ = "armed" THEN "off" ELSE @,
          ![e].pc = IF execs[e].by = "none" THEN "settled" ELSE @,
          ![e].by = IF @ = "none" THEN "close" ELSE @,
          ![e].exitCode = IF execs[e].by = "none" THEN 0 ELSE @,
          ![e].result = IF execs[e].by = "none"
                        THEN [stdout |-> Trim(execs[e].stdout), stderr |-> Trim(execs[e].stderr)]
                        ELSE @]
    /\ UNCHANGED lemSessions
    /\ UNCHANGED notLem

\* the awaited promise has settled: executeCode returns the result
executeCodeReturn(e) ==
    /\ execs[e].pc = "settled"
    /\ execs' = [execs EXCEPT ![e].pc = "returned"]
    /\ UNCHANGED lemSessions
    /\ UNCHANGED notLem

----------------------------------------------------------------------------
(* LocalExecutionManager.ts: the port pool, createVSCodeSession, destroySession *)

startPort == 8080          \* initializePortCache, and the argument of findAvailablePort
endPort == 9999            \* initializePortCache
scanLength == 1000         \* findAvailablePort looks at startPort .. startPort + 999

\* the keys initializePortCache enters into portCache
Ports == startPort..endPort

\* ids of VS Code sessions; an id stands for a fresh uuid each time it is used
VsIds == 1..MaxVsSessions
DestroyIds == 1..MaxDestroyCalls

IdleDestroy == [pc |-> "idle", sid |-> 0, port |-> 0]
NeverFreed == [port |-> 0, at |-> 0]

\* the ports findAvailablePort(start) may return: !this.portCache.get(port)
FreePorts(start) == {p \in start..(start + scanLength - 1) : p \notin portCache}

\* findAvailablePort(start): the lowest free port of the scan, 0 when it throws
findAvailablePort(start) ==
    IF FreePorts(start) = {} THEN 0
    ELSE CHOOSE p \in FreePorts(start) : \A q \in FreePorts(start) : p <= q

\* a session id no session, pending creation or pending destruction uses: the
\* callers pass a new uuid to every createVSCodeSession
VsFresh(sid) ==
    /\ sid \notin DOMAIN lemSessions
    /\ sid \notin DOMAIN vsCalls
    /\ \A d \in DestroyIds : lemDestroys[d].sid # sid

\* createVSCodeSession up to await fs.mkdir: the port is found and marked
AllocatePort(sid) ==
    /\ Cardinality(portCache) < MaxPortsTaken
    /\ findAvailablePort(startPort) # 0
    /\ portCache' = portCache \cup {findAvailablePort(startPort)}
    /\ vsCalls' = Put(vsCalls, sid, findAvailablePort(startPort))

createVSCodeSession(sid) ==
    /\ VsFresh(sid)
    /\ \A other \in VsIds : VsFresh(other) => sid <= other
    /\ AllocatePort(sid)
    /\ UNCHANGED <<lemSessions, lemDestroys, lastFreed, now>>
    /\ UNCHANGED notPort

\* createVSCodeSession after fs.mkdir: spawn code-server and register the
\* session with its port; when spawn throws, register it without a port
RegisterVSCode(sid, spawned) ==
    /\ lemSessions' = Put(lemSessions, sid,
                          [language |-> "vscode", port |-> IF spawned THEN vsCalls[sid] ELSE 0])
    /\ vsCalls' = Del(vsCalls, sid)

createVSCodeSessionDone(sid, spawned) ==
    /\ sid \in DOMAIN vsCalls
    /\ RegisterVSCode(sid, spawned)
    /\ UNCHANGED <<portCache, lemDestroys, lastFreed, now>>
    /\ UNCHANGED notPort

\* createVSCodeSession when await fs.mkdir rejects: the call throws, nothing
\* is registered and the port stays marked
createVSCodeSessionFailed(sid) ==
    /\ sid \in DOMAIN vsCalls
    /\ vsCalls' = Del(vsCalls, sid)
    /\ UNCHANGED <<lemSessions, portCache, lemDestroys, lastFreed, now>>
    /\ UNCHANGED notPort

defaultPort == 8080   \* session.port || 8080

NoUrl == [host |-> "", port |-> 0]

\* getVSCodeUrl(sessionId): the URL it returns, NoUrl when it throws
getVSCodeUrl(sid) ==
    IF sid \notin DOMAIN lemSessions THEN NoUrl
    ELSE IF lemSessions[sid].language # "vscode" THEN NoUrl
    ELSE [host |-> "localhost",
          port |-> IF lemSessions[sid].port # 0 THEN lemSessions[sid].port ELSE defaultPort]

\* destroySession up to await fs.rm: the session object is looked up
LookupForDestroy(d, sid) ==
    /\ lemDestroys[d].pc = "idle"
    /\ \A other \in DestroyIds : lemDestroys[other].pc = "idle" => d <= other
    /\ sid \in DOMAIN lemSessions
    /\ lemDestroys' = [lemDestroys EXCEPT ![d] =
                          [pc |-> "rm", sid |-> sid, port |-> lemSessions[sid].port]]

lemDestroySession(d, sid) ==
    /\ LookupForDestroy(d, sid)
    /\ UNCHANGED <<lemSessions, portCache, vsCalls, lastFreed, now>>
    /\ UNCHANGED notPort

\* destroySession after fs.rm: free the port of the session object, delete the id
FreePortAndDelete(d) ==
    /\ lemDestroys[d].pc = "rm"
    /\ IF lemDestroys[d].port # 0
       THEN /\ portCache' = portCache \ {lemDestroys[d].port}
            /\ lastFreed' = [port |-> lemDestroys[d].port, at |-> now]
       ELSE UNCHANGED <<portCache, lastFreed>>
    /\ lemSessions' = Del(lemSessions, lemDestroys[d].sid)
    /\ lemDestroys' = [lemDestroys EXCEPT ![d] = IdleDestroy]

lemDestroySessionDone(d) ==
    /\ FreePortAndDelete(d)
    /\ UNCHANGED <<vsCalls, now>>
    /\ UNCHANGED notPort

\* Date.now() moves on between two handlers of the execution manager
PortTick ==
    /\ now < StartTime + MaxPortTicks * (TimeStep \div 2)
    /\ now' = now + TimeStep \div 2
    /\ UNCHANGED <<lemSessions, portVars>>
    /\ UNCHANGED notPort

----------------------------------------------------------------------------
(* McpServer.ts, SystemConfigResource.ts, index.ts: admission of calls *)

points == 100              \* McpServer: points: 100; SecurityManager: RATE_LIMIT_POINTS || '100'
duration == 60             \* both limiters: duration: 60 (seconds)
mcpBlockDuration == 0      \* McpServer.rateLimiter has no blockDuration option
secBlockDuration == 300    \* SecurityManager: RATE_LIMIT_BLOCK_DURATION || '300'

\* the value of x-forwarded-for that names the caller
Identities == {"10.0.0.1"}

\* no record of the key in the limiter's memory store
NoRecord == [n |-> 0, expiresAt |-> 0]

\* MemoryStorage.incrby(key, 1, duration): add to a live record, else start one
incrby(rec) ==
    IF rec.n > 0 /\ now < rec.expiresAt
    THEN [rec EXCEPT !.n = rec.n + 1]
    ELSE [n |-> 1, expiresAt |-> now + duration * 1000]

\* RateLimiterMemory.consume(key): does the promise reject
Rejects(rec) == incrby(rec).n > points

\* RateLimiterMemory.consume(key): the record it leaves; the key is blocked
\* only the first time more than the points are consumed
consume(rec, blockDuration) ==
    IF Rejects(rec) /\ blockDuration > 0 /\ incrby(rec).n <= points + 1
    THEN [n |-> incrby(rec).n, expiresAt |-> now + blockDuration * 1000]
    ELSE incrby(rec)

\* history: one more call of identity i, counted in its current window
Issue(i) ==
    IF issued[i].n > 0 /\ now < issued[i].start + duration * 1000
    THEN [issued EXCEPT ![i].n = issued[i].n + 1]
    ELSE [issued EXCEPT ![i] = [n |-> 1, start |-> now]]

\* history: the first refusal of identity i starts its exhaustion
Exhaust(i, refused) ==
    IF refused /\ (exhaustedAt[i] = 0 \/ now - exhaustedAt[i] >= secBlockDuration * 1000)
    THEN [exhaustedAt EXCEPT ![i] = now]
    ELSE exhaustedAt

\* neither counter of the identity is further than MaxOverLimit beyond the points
WithinOverLimit(i) ==
    /\ mcpLimiter[i].n < points + MaxOverLimit
    /\ issued[i].n < points + MaxOverLimit

\* handleSTDIORequest for a tools/list request with header x-forwarded-for = i:
\* the server's limiter, then validateRequest (the security manager's limiter;
\* no API keys are configured, the request is well formed), then the listing.
\* Each consume acts on the memory store before its promise settles, so the
\* two run as one step.
handleSTDIORequest(i) ==
    /\ WithinOverLimit(i)
    /\ mcpLimiter' = [mcpLimiter EXCEPT ![i] = consume(mcpLimiter[i], mcpBlockDuration)]
    /\ IF Rejects(mcpLimiter[i])
       THEN /\ admit' = [via |-> "stdio", who |-> i, outcome |-> "Rate limit exceeded"]
            /\ UNCHANGED secLimiter
       ELSE /\ secLimiter' = [secLimiter EXCEPT ![i] = consume(secLimiter[i], secBlockDuration)]
            /\ admit' = [via |-> "stdio", who |-> i,
                         outcome |-> IF Rejects(secLimiter[i]) THEN "Unauthorized" ELSE "served"]
    /\ issued' = Issue(i)
    /\ exhaustedAt' = Exhaust(i, admit'.outcome # "served")
    /\ UNCHANGED now
    /\ UNCHANGED notAdmit

\* the CallToolRequestSchema handler for the tool system_health: the tool is
\* run at once; no limiter is consulted on this entry point
CallTool(i) ==
    /\ WithinOverLimit(i)
    /\ admit' = [via |-> "tool", who |-> i, outcome |-> "served"]
    /\ issued' = Issue(i)
    /\ UNCHANGED <<mcpLimiter, secLimiter, exhaustedAt, now>>
    /\ UNCHANGED notAdmit

\* Date.now() moves on by one refill window
AdmitTick ==
    /\ now < StartTime + MaxAdmitTicks * duration * 1000
    /\ now' = now + duration * 1000
    /\ UNCHANGED admitVars
    /\ UNCHANGED notAdmit

----------------------------------------------------------------------------
(* SecurityManager (resources/SystemConfigResource.ts): validateCodeExecution *)

validationTTL == 300       \* stdTTL of validationCache, seconds

\* the source fragments the model draws code from; a source text is a sequence
\* of fragments and a pattern is given by the fragments it matches
Fragments ==
    {"print('hi')", "os.system('ls')", "import os", "require('fs')", "system(\"ls\")",
     "System.exit(0)", "$(ls)", "obj"}

P(reason, hits) == [reason |-> reason, hits |-> hits]

\* initializeDangerousPatterns: compiled with the i flag
codePatternCache ==
    << P("Dangerous pattern detected: child_process", {}),
       P("Dangerous pattern detected: subprocess", {}),
       P("Dangerous pattern detected: os\\.system", {"os.system('ls')"}),
       P("Dangerous pattern detected: eval\\s*\\(", {}),
       P("Dangerous pattern detected: exec\\s*\\(", {}),
       P("Dangerous pattern detected: shell_exec", {}),
       P("Dangerous pattern detected: __import__.*os", {}),
       P("Dangerous pattern detected: Runtime\\.getRuntime", {}),
       P("Dangerous pattern detected: ProcessBuilder", {}) >>

additionalPatterns ==
    << P("Shell command substitution not allowed", {"$(ls)"}),
       P("Backtick execution not allowed", {}),
       P("System file access not allowed", {}),
       P("System device access not allowed", {}) >>

pythonDangerousPatterns ==
    << P("Dangerous Python pattern detected: import\\s+os", {"import os"}),
       P("Dangerous Python pattern detected: from\\s+os\\s+import", {}),
       P("Dangerous Python pattern detected: import\\s+subprocess", {}),
       P("Dangerous Python pattern detected: from\\s+subprocess\\s+import", {}),
       P("Dangerous Python pattern detected: import\\s+sys", {}),
       P("Dangerous Python pattern detected: from\\s+sys\\s+import", {}),
       P("Dangerous Python pattern detected: __builtins__", {}),
       P("Dangerous Python pattern detected: compile\\s*\\(", {}),
       P("Dangerous Python pattern detected: globals\\s*\\(\\s*\\)", {}),
       P("Dangerous Python pattern detected: locals\\s*\\(\\s*\\)", {}),
       P("Dangerous Python pattern detected: vars\\s*\\(\\s*\\)", {}),
       P("Dangerous Python pattern detected: dir\\s*\\(\\s*\\)", {}),
       P("Dangerous Python pattern detected: getattr\\s*\\(", {}),
       P("Dangerous Python pattern detected: setattr\\s*\\(", {}),
       P("Dangerous Python pattern detected: hasattr\\s*\\(", {}),
       P("Dangerous Python pattern detected: delattr\\s*\\(", {}),
       P("Dangerous Python pattern detected: open\\s*\\(", {}),
       P("Dangerous Python pattern detected: file\\s*\\(", {}),
       P("Dangerous Python pattern detected: input\\s*\\(", {}),
       P("Dangerous Python pattern detected: raw_input\\s*\\(", {}) >>

jsDangerousPatterns ==
    << P("Dangerous JavaScript pattern detected: require\\s*\\(", {"require('fs')"}),
       P("Dangerous JavaScript pattern detected: import\\s*\\(", {}),
       P("Dangerous JavaScript pattern detected: new\\s+Function\\s*\\(", {}),
       P("Dangerous JavaScript pattern detected: Function\\s*\\(", {}),
       P("Dangerous JavaScript pattern detected: setTimeout\\s*\\(", {}),
       P("Dangerous JavaScript pattern detected: setInterval\\s*\\(", {}),
       P("Dangerous JavaScript pattern detected: XMLHttpRequest", {}),
       P("Dangerous JavaScript pattern detected: fetch\\s*\\(", {}),
       P("Dangerous JavaScript pattern detected: window\\.", {}),
       P("Dangerous JavaScript pattern detected: document\\.", {}),
       P("Dangerous JavaScript pattern detected: global\\.", {}),
       P("Dangerous JavaScript pattern detected: process\\.", {}),
       P("Dangerous JavaScript pattern detected: Buffer\\.", {}),
       P("Dangerous JavaScript pattern detected: __dirname", {}),
       P("Dangerous JavaScript pattern detected: __filename", {}) >>

javaPatterns ==
    << P("Runtime access not allowed", {}),
       P("Process creation not allowed", {}),
       P("System exit not allowed", {"System.exit(0)"}),
       P("Absolute file paths not allowed", {}),
       P("System file access not allowed", {}) >>

cPatterns ==
    << P("System calls not allowed", {"system(\"ls\")", "os.system('ls')"}),
       P("Process creation not allowed", {}),
       P("Exec functions not allowed", {}),
       P("Unix system headers not allowed", {}),
       P("Process forking not allowed", {}) >>

Valid == [valid |-> TRUE, reason |-> ""]

\* pattern.test(code)
Test(pattern, code) == \E i \in DOMAIN code : code[i] \in pattern.hits

\* the for loop over a pattern table: the first pattern that matches decides
RECURSIVE Scan(_, _, _)
Scan(table, i, code) ==
    IF i > Len(table) THEN Valid
    ELSE IF Test(table[i], code) THEN [valid |-> FALSE, reason |-> table[i].reason]
    ELSE Scan(table, i + 1, code)

validatePythonCode(code) == Scan(pythonDangerousPatterns, 1, code)
validateJavaScriptCode(code) == Scan(jsDangerousPatterns, 1, code)
validateJavaCode(code) == Scan(javaPatterns, 1, code)
validateCCode(code) == Scan(cPatterns, 1, code)

performCodeValidation(code, language) ==
    LET common == Scan(codePatternCache, 1, code)
        additional == Scan(additionalPatterns, 1, code)
    IN IF ~common.valid THEN common
       ELSE IF ~additional.valid THEN additional
       ELSE IF language = "python" THEN validatePythonCode(code)
       ELSE IF language \in {"javascript", "typescript"} THEN validateJavaScriptCode(code)
       ELSE IF language \in {"bash", "shell", "sh"}
            THEN [valid |-> FALSE, reason |-> "Shell execution not allowed"]
       ELSE IF language = "java" THEN validateJavaCode(code)
       ELSE IF language \in {"c", "cpp", "c++"} THEN validateCCode(code)
       ELSE Valid

\* the text of a language name, cut where a shorter language name ends it
LangText(language) == IF language = "objc" THEN <<"obj", "c">> ELSE <<language>>

\* md5(code + language): the digest is taken of the concatenated text
CacheKey(code, language) == code \o LangText(language)

\* validationCache.get(cacheKey)
Cached(code, language) ==
    LET k == CacheKey(code, language)
    IN IF k \in DOMAIN validationCache /\ ~(validationCache[k].t < now)
       THEN <<validationCache[k].v>> ELSE <<>>

\* the verdict validateCodeExecution returns
Verdict(code, language) ==
    IF Cached(code, language) # <<>> THEN Cached(code, language)[1]
    ELSE performCodeValidation(code, language)

\* validateCodeExecution: return the memoized verdict, else compute and memoize
validateCodeExecution(code, language) ==
    validationCache' =
        IF Cached(code, language) # <<>> THEN validationCache
        ELSE Put(validationCache, CacheKey(code, language),
                 [v |-> performCodeValidation(code, language),
                  t |-> now + validationTTL * 1000])

\* what the screener does not write
screenFrame == <<cbState, smVars, lemVars, portVars, admitVars, tools, provVars, poolVars>>

\* a caller applies validateCodeExecution to a source text and a language
screenCode(code, language) ==
    /\ language \in SupportedLanguages
    /\ Cached(code, language) = <<>> => Cardinality(DOMAIN validationCache) < MaxMemo
    /\ validateCodeExecution(code, language)
    /\ UNCHANGED <<now, screenFrame>>

\* time passes by half the life of a memoized verdict
ScreenTick ==
    /\ now < StartTime + MaxScreenTicks * ((validationTTL * 1000) \div 2)
    /\ now' = now + (validationTTL * 1000) \div 2
    /\ UNCHANGED <<validationCache, screenFrame>>

\* the source texts and languages the screener is applied to
ScreenCodes == {Hello, <<"import os">>, <<"system(\"ls\")">>, <<"system(\"ls\")", "obj">>}
ScreenLanguages == {"python", "c", "objc"}

----------------------------------------------------------------------------
(* The entry points that run user code: executeCodeTool.execute and
   ExecuteCodeTool.execute (tools/CreateVSCodeSessionTool.ts),
   McpServer.handleExecuteCode (core/McpServer.ts) *)

ToolIds == 1..MaxToolCalls

IdleTool ==
    [path |-> "", pc |-> "idle", code |-> <<>>, lang |-> "",
     sid |-> 0,         \* the sessionId of the request, 0 when absent
     actual |-> 0,      \* actualSessionId
     temp |-> FALSE,    \* isTemporarySession
     exec |-> 0]        \* the executeCode call made for the request

\* what no entry point writes
toolFrame == <<cbState, now, redis, redisUp, calls, destroyedAt, lastAck, observed, portVars, admitVars,
              provVars, poolVars>>

Request(t, path, code, lang, sid) ==
    [IdleTool EXCEPT !.path = path, !.pc = "received", !.code = code, !.lang = lang,
                     !.sid = sid, !.actual = sid]

NextTool(t) ==
    /\ tools[t].pc = "idle"
    /\ IF t = 1 THEN TRUE ELSE tools[t - 1].pc # "idle"

\* sessionManager.createSession({ type: 'execution', ..., clientId: 'execute_code_tool' })
ToolCreateSession(t, req, pc) ==
    /\ nextId < MaxSessions
    /\ nextId' = nextId + 1
    /\ storeSession(NewSession(nextId + 1, "execute_code_tool"))
    /\ tools' = [tools EXCEPT ![t] =
                    [req EXCEPT !.pc = pc, !.actual = nextId + 1, !.temp = TRUE]]
    /\ UNCHANGED lemVars

\* executionManager.executeCode(actualSessionId, { code, language, ... }): a
\* rejection of the call is rethrown by the entry point
ToolExecuteCode(t, req) ==
    /\ \E e \in 1..MaxExecs :
          /\ ExecStart(e, req.actual, req.code, req.lang)
          /\ tools' = [tools EXCEPT ![t] =
                [req EXCEPT !.exec = e,
                            !.pc = IF execs'[e].pc = "threw" THEN "threw" ELSE "executing"]]
    /\ UNCHANGED <<lemSessions, cache, redisStore, sessions, nextId>>

\* executeCodeTool.execute up to its first await
executeCodeTool(t, code, lang, sid) ==
    /\ NextTool(t)
    /\ lang \in SupportedLanguages
    /\ validateCodeExecution(code, lang)
    /\ LET req == Request(t, "executeCodeTool", code, lang, sid)
       IN IF ~Verdict(code, lang).valid
          THEN /\ tools' = [tools EXCEPT ![t] = [req EXCEPT !.pc = "threw"]]
               /\ UNCHANGED <<lemVars, cache, redisStore, sessions, nextId>>
          ELSE IF sid = 0
          THEN ToolCreateSession(t, req, "created")
          ELSE ToolExecuteCode(t, req)
    /\ UNCHANGED toolFrame

\* ExecuteCodeTool.execute (the MCPTool class) up to its first await
ExecuteCodeToolClass(t, code, lang, sid) ==
    /\ NextTool(t)
    /\ lang \in SupportedLanguages
    /\ LET req == Request(t, "ExecuteCodeTool", code, lang, sid)
       IN IF sid = 0
          THEN ToolCreateSession(t, req, "ready")
          ELSE ToolExecuteCode(t, req)
    /\ UNCHANGED <<validationCache, toolFrame>>

\* McpServer.handleExecuteCode up to its await
handleExecuteCode(t, code, lang, sid) ==
    /\ NextTool(t)
    /\ ToolExecuteCode(t, Request(t, "handleExecuteCode", code, lang, sid))
    /\ UNCHANGED <<validationCache, toolFrame>>

\* executeCodeTool.execute: executionManager.createExecutionSession for the
\* temporary session
toolCreateExecutionSession(t) ==
    /\ tools[t].pc = "created"
    /\ lemSessions' = Put(lemSessions, tools[t].actual, [language |-> tools[t].lang, port |-> 0])
    /\ tools' = [tools EXCEPT ![t].pc = "ready"]
    /\ UNCHANGED <<execs, cache, redisStore, sessions, nextId, validationCache, toolFrame>>

\* the temporary session exists: execute the code
toolExecute(t) ==
    /\ tools[t].pc = "ready"
    /\ ToolExecuteCode(t, tools[t])
    /\ UNCHANGED <<validationCache, toolFrame>>

\* executeCode has returned its result: begin the clean-up of a temporary
\* session, or answer
toolResult(t) ==
    /\ tools[t].pc = "executing"
    /\ execs[tools[t].exec].pc = "returned"
    /\ IF ~tools[t].temp
       THEN /\ tools' = [tools EXCEPT ![t].pc = "done"]
            /\ UNCHANGED <<cache, redisStore, sessions>>
       ELSE IF tools[t].path = "executeCodeTool" /\ tools[t].actual \in DOMAIN lemSessions
       THEN \* executionManager.destroySession: await fs.rm
            /\ tools' = [tools EXCEPT ![t].pc = "rm"]
            /\ UNCHANGED <<cache, redisStore, sessions>>
       ELSE \* sessionManager.destroySession
            /\ DropSession(tools[t].actual)
            /\ tools' = [tools EXCEPT ![t].pc = "done"]
    /\ UNCHANGED <<lemVars, nextId, validationCache, toolFrame>>

\* executionManager.destroySession after fs.rm, then
\* sessionManager.destroySession
toolCleanup(t) ==
    /\ tools[t].pc = "rm"
    /\ lemSessions' = Del(lemSessions, tools[t].actual)
    /\ DropSession(tools[t].actual)
    /\ tools' = [tools EXCEPT ![t].pc = "done"]
    /\ UNCHANGED <<execs, nextId, validationCache, toolFrame>>

\* LocalExecutionManager.createPlaywrightSession, reached from
\* McpServer.handlePlaywrightSession with the session id of the request
createPlaywrightSession(sid) ==
    /\ lemSessions' = Put(lemSessions, sid, [language |-> "playwright", port |-> 0])
    /\ UNCHANGED execs
    /\ UNCHANGED notLem

----------------------------------------------------------------------------
(* The tools that create, list and destroy sessions: createVSCodeSessionTool
   (tools/CreateVSCodeSessionTool.ts), manageSessionsTool
   (tools/ManageSessionsTool.ts), McpServer.handleDestroySession.  A tool call
   keeps its position in the slot of the session manager call it makes. *)

\* what the session tools leave alone
surfaceFrame == <<cbState, now, redis, redisUp, execs, toolVars, admitVars, provVars, poolVars>>

\* createVSCodeSessionTool.execute up to the return of
\* sessionManager.createSession({ type: 'vscode', ..., clientId: 'vscode_tool' })
createVSCodeSessionTool(c) ==
    /\ calls[c].op = "idle"
    /\ nextId < MaxSessions
    /\ nextId' = nextId + 1
    /\ storeSession(NewSession(nextId + 1, "vscode_tool"))
    /\ calls' = [calls EXCEPT ![c] =
                    IF RedisFails THEN Threw("vscodeTool", nextId + 1)
                    ELSE [IdleCall EXCEPT !.op = "vscodeTool", !.pc = "created",
                                          !.sid = nextId + 1]]
    /\ UNCHANGED <<destroyedAt, lastAck, observed, lemSessions, portVars>>
    /\ UNCHANGED surfaceFrame

\* executionManager.createVSCodeSession(session.id, language) up to await fs.mkdir
vscodeToolAllocate(c) ==
    /\ calls[c].op = "vscodeTool"
    /\ calls[c].pc = "created"
    /\ AllocatePort(calls[c].sid)
    /\ calls' = [calls EXCEPT ![c].pc = "mkdir"]
    /\ UNCHANGED <<cache, redisStore, sessions, nextId, destroyedAt, lastAck, observed,
                   lemSessions, lemDestroys, lastFreed>>
    /\ UNCHANGED surfaceFrame

\* createVSCodeSession after fs.mkdir, getVSCodeUrl, and the answer of the
\* tool, which reports session.status
vscodeToolRegister(c, spawned) ==
    /\ calls[c].op = "vscodeTool"
    /\ calls[c].pc = "mkdir"
    /\ RegisterVSCode(calls[c].sid, spawned)
    /\ calls' = [calls EXCEPT ![c] = IdleCall]
    /\ UNCHANGED <<cache, redisStore, sessions, nextId, destroyedAt, lastAck, observed,
                   portCache, lemDestroys, lastFreed>>
    /\ UNCHANGED surfaceFrame

\* manage_sessions, action list: listSessions('session_tool')
manageSessionsList(c) == listSessions(c, "session_tool")

\* manage_sessions list answers with the heading and the number of records
manageSessionsListReturn(c) ==
    /\ calls[c].op = "list"
    /\ calls[c].pc = "listed"
    /\ calls[c].client = "session_tool"
    /\ calls' = [calls EXCEPT ![c] =
                    [IdleCall EXCEPT !.out = IF calls[c].acc = <<>>
                                             THEN <<"No Active Sessions">>
                                             ELSE <<"Active Sessions", Len(calls[c].acc)>>]]
    /\ UNCHANGED <<cache, redisStore, sessions, nextId, destroyedAt, lastAck, observed,
                   lemSessions, portVars>>
    /\ UNCHANGED surfaceFrame

\* manage_sessions, action destroy, up to the first await of
\* sessionManager.getSession(sessionId)
manageSessionsDestroy(c, id) == getSessionBegin(c, "manageDestroy", id, NoUpdate)

\* sessionManager.destroySession as issued by a tool
ToolDropSession(c) ==
    /\ DropSession(calls[c].sid)
    /\ calls' = [calls EXCEPT ![c].pc = "destroying", ![c].snap = <<>>, ![c].d = 0,
                              ![c].fail = RedisFails]

\* manage_sessions destroy after getSession: throw 'Session not found', or call
\* executionManager.destroySession, which returns at once for an id it does
\* not hold, and then sessionManager.destroySession
manageDestroyLem(c) ==
    /\ calls[c].op = "manageDestroy"
    /\ calls[c].pc = "got"
    /\ IF calls[c].snap = <<>>
       THEN /\ calls' = [calls EXCEPT ![c] = Threw("manageDestroy", calls[c].sid)]
            /\ UNCHANGED <<cache, redisStore, sessions, lemDestroys>>
       ELSE IF calls[c].sid \notin DOMAIN lemSessions
       THEN /\ ToolDropSession(c)
            /\ UNCHANGED lemDestroys
       ELSE /\ \E d \in DestroyIds :
                  /\ LookupForDestroy(d, calls[c].sid)
                  /\ calls' = [calls EXCEPT ![c].pc = "lemRm", ![c].d = d]
            /\ UNCHANGED <<cache, redisStore, sessions>>
    /\ UNCHANGED <<nextId, destroyedAt, lastAck, observed, lemSessions, portCache, vsCalls,
                   lastFreed>>
    /\ UNCHANGED surfaceFrame

\* manage_sessions destroy: executionManager.destroySession after fs.rm, then
\* sessionManager.destroySession up to await Promise.all
manageDestroySm(c) ==
    /\ calls[c].op = "manageDestroy"
    /\ calls[c].pc = "lemRm"
    /\ FreePortAndDelete(calls[c].d)
    /\ ToolDropSession(c)
    /\ UNCHANGED <<nextId, destroyedAt, lastAck, observed, vsCalls>>
    /\ UNCHANGED surfaceFrame

\* McpServer.handleDestroySession: sessionManager.destroySession(sessionId)
handleDestroySession(c, id) == destroySession(c, id)

----------------------------------------------------------------------------
(* RedisPool.ts *)

maxConnections == 10         \* options.maxConnections || 10
minConnections == 2          \* options.minConnections || 2
idleTimeoutMillis == 300000  \* options.idleTimeoutMillis || 300000

\* one caller more than the pool may hold connections
MaxPoolLoad == maxConnections + 1
Acquirers == 1..MaxPoolLoad

\* poolCtl.init is <<connection being connected, loop index>> while
\* initialize() awaits
NotConnecting == <<0, 0>>

IdleAcquirer == [pc |-> "idle", conn |-> 0, err |-> ""]

\* the ids of the Redis objects; the next new Redis(...) gets the lowest free id
ConnIds == DOMAIN conns
NewConn == Cardinality(DOMAIN conns) + 1

Contains(seq, x) == \E i \in DOMAIN seq : seq[i] = x
Without(seq, x) == SelectSeq(seq, LAMBDA y : y # x)

\* new Redis({ ..., lazyConnect: true }) with the two event handlers attached
NewRedis == [status |-> "connecting", lastUsed |-> 0]

\* removeConnection: drop the connection from inUse, pool and available, then
\* connection.disconnect()
removeConnection(c) ==
    /\ inUse' = inUse \ {c}
    /\ pool' = pool \ {c}
    /\ available' = Without(available, c)
    /\ conns' = [conns EXCEPT ![c].status = "end"]

\* the 'error' or 'close' handler of a connection runs
connectionEvent(c) ==
    /\ c \in ConnIds
    /\ conns[c].status # "end"
    /\ removeConnection(c)
    /\ UNCHANGED <<acquirers, poolCtl, now>>
    /\ UNCHANGED notPool

\* initialize() up to its first await connection.connect()
poolInitialize ==
    /\ ~poolCtl.initialized
    /\ poolCtl.init = NotConnecting
    /\ conns' = Put(conns, NewConn, NewRedis)
    /\ poolCtl' = [poolCtl EXCEPT !.init = <<NewConn, 1>>]
    /\ UNCHANGED <<pool, available, inUse, acquirers, now>>
    /\ UNCHANGED notPool

\* initialize() after await createConnection(): push the connection, then
\* create the next one or finish; a failed connect rejects initialize()
poolInitializeConnected(ok) ==
    /\ poolCtl.init # NotConnecting
    /\ LET c == poolCtl.init[1]
           i == poolCtl.init[2]
       IN /\ ok => conns[c].status = "connecting"
          /\ IF ~ok
             THEN /\ conns' = [conns EXCEPT ![c].status = "end"]
                  /\ poolCtl' = [poolCtl EXCEPT !.init = NotConnecting]
                  /\ UNCHANGED <<pool, available>>
             ELSE /\ pool' = pool \cup {c}
                  /\ available' = Append(available, c)
                  /\ IF i < minConnections
                     THEN /\ conns' = Put([conns EXCEPT ![c].status = "ready"], NewConn, NewRedis)
                          /\ poolCtl' = [poolCtl EXCEPT !.init = <<NewConn, i + 1>>]
                     ELSE /\ conns' = [conns EXCEPT ![c].status = "ready"]
                          /\ poolCtl' = [poolCtl EXCEPT !.init = NotConnecting, !.initialized = TRUE]
    /\ UNCHANGED <<inUse, acquirers, now>>
    /\ UNCHANGED notPool

\* one pass of the while loop of acquire(): take an available connection,
\* else start a new one while pool.length < maxConnections, else sleep 10 ms
TryAcquire(a) ==
    IF available # <<>>
    THEN /\ available' = SubSeq(available, 1, Len(available) - 1)
         /\ inUse' = inUse \cup {available[Len(available)]}
         /\ acquirers' = [acquirers EXCEPT ![a] =
               [pc |-> "holding", conn |-> available[Len(available)], err |-> ""]]
         /\ UNCHANGED conns
    ELSE IF Cardinality(pool) < maxConnections
    THEN /\ conns' = Put(conns, NewConn, NewRedis)
         /\ acquirers' = [acquirers EXCEPT ![a] =
               [pc |-> "creating", conn |-> NewConn, err |-> ""]]
         /\ UNCHANGED <<available, inUse>>
    ELSE /\ acquirers' = [acquirers EXCEPT ![a] = [pc |-> "sleeping", conn |-> 0, err |-> ""]]
         /\ UNCHANGED <<available, inUse, conns>>

\* acquire(): the circuit breaker lets the call through and the loop starts
acquire(a) ==
    /\ acquirers[a].pc = "idle"
    /\ IF a = 1 THEN TRUE ELSE acquirers[a - 1].pc # "idle"
    /\ TryAcquire(a)
    /\ UNCHANGED <<pool, poolCtl, now>>
    /\ UNCHANGED notPool

\* acquire() after the 10 ms sleep: the loop condition, then the next pass
acquireRetry(a, timedOut) ==
    /\ acquirers[a].pc = "sleeping"
    /\ IF timedOut
       THEN /\ acquirers' = [acquirers EXCEPT ![a] =
                  [IdleAcquirer EXCEPT !.err = "Redis pool: Timeout acquiring connection"]]
            /\ UNCHANGED <<available, inUse, conns>>
       ELSE TryAcquire(a)
    /\ UNCHANGED <<pool, poolCtl, now>>
    /\ UNCHANGED notPool

\* acquire() after await createConnection(): push to pool, add to inUse; a
\* failed connect rejects acquire()
createConnectionDone(a, ok) ==
    /\ acquirers[a].pc = "creating"
    /\ LET c == acquirers[a].conn
       IN /\ ok => conns[c].status = "connecting"
          /\ IF ok
             THEN /\ conns' = [conns EXCEPT ![c].status = "ready"]
                  /\ pool' = pool \cup {c}
                  /\ inUse' = inUse \cup {c}
                  /\ acquirers' = [acquirers EXCEPT ![a].pc = "holding"]
             ELSE /\ conns' = [conns EXCEPT ![c].status = "end"]
                  /\ acquirers' = [acquirers EXCEPT ![a] =
                        [IdleAcquirer EXCEPT !.err = "connect failed"]]
                  /\ UNCHANGED <<pool, inUse>>
    /\ UNCHANGED <<available, poolCtl, now>>
    /\ UNCHANGED notPool

\* execute() after await acquire(): lastUsed is stamped and the operation starts
executeStamp(a) ==
    /\ acquirers[a].pc = "holding"
    /\ conns' = [conns EXCEPT ![acquirers[a].conn].lastUsed = now]
    /\ acquirers' = [acquirers EXCEPT ![a].pc = "operating"]
    /\ UNCHANGED <<pool, available, inUse, poolCtl, now>>
    /\ UNCHANGED notPool

\* release() without the test this.inUse.has(connection)
release_NoCheck(a) ==
    /\ acquirers[a].pc \in {"holding", "operating"}
    /\ LET c == acquirers[a].conn
       IN IF conns[c].status = "ready"
          THEN /\ inUse' = inUse \ {c}
               /\ available' = Append(available, c)
               /\ UNCHANGED <<pool, conns>>
          ELSE removeConnection(c)
    /\ acquirers' = [acquirers EXCEPT ![a] = IdleAcquirer]
    /\ UNCHANGED <<poolCtl, now>>
    /\ UNCHANGED notPool

\* release(connection) by the caller that holds it: directly, or from the
\* finally of execute()
release(a) ==
    /\ acquirers[a].pc \in {"holding", "operating"}
    /\ LET c == acquirers[a].conn
       IN IF c \notin inUse
          THEN UNCHANGED <<pool, available, inUse, conns>>
          ELSE IF conns[c].status = "ready"
          THEN /\ inUse' = inUse \ {c}
               /\ available' = Append(available, c)
               /\ UNCHANGED <<pool, conns>>
          ELSE removeConnection(c)
    /\ acquirers' = [acquirers EXCEPT ![a] = IdleAcquirer]
    /\ UNCHANGED <<poolCtl, now>>
    /\ UNCHANGED notPool

\* connection.lastUsed || now, then the idle test
IsIdle(c) == now - (IF conns[c].lastUsed = 0 THEN now ELSE conns[c].lastUsed) > idleTimeoutMillis

RECURSIVE RemoveAll(_, _)
RemoveAll(seq, gone) ==
    IF gone = <<>> THEN seq ELSE RemoveAll(Without(seq, gone[1]), Tail(gone))

\* cleanupIdleConnections, run by the interval timer that initialize() starts
cleanupIdleConnections ==
    /\ poolCtl.initialized
    /\ LET connectionsToRemove == SelectSeq(available, IsIdle)
           excessConnections == Len(available) - minConnections
           toRemove == IF Len(connectionsToRemove) < excessConnections
                       THEN Len(connectionsToRemove) ELSE excessConnections
           gone == IF Len(available) > minConnections
                   THEN SubSeq(connectionsToRemove, 1, toRemove) ELSE <<>>
           goneSet == {gone[i] : i \in DOMAIN gone}
       IN /\ gone # <<>>
          /\ available' = RemoveAll(available, gone)
          /\ pool' = pool \ goneSet
          /\ inUse' = inUse \ goneSet
          /\ conns' = [c \in DOMAIN conns |->
                          IF c \in goneSet THEN [conns[c] EXCEPT !.status = "end"] ELSE conns[c]]
          \* logger.debug: Cleaned up N idle Redis connections
          /\ poolCtl' = [poolCtl EXCEPT !.cleaned = Len(gone)]
    /\ UNCHANGED <<acquirers, now>>
    /\ UNCHANGED notPool

\* shutdown() up to await Promise.allSettled: quit() is sent on every connection
shutdown ==
    /\ poolCtl.shutdown = "idle"
    /\ pool # {}
    /\ poolCtl' = [poolCtl EXCEPT !.shutdown = "quitting"]
    /\ UNCHANGED <<pool, available, inUse, conns, acquirers, now>>
    /\ UNCHANGED notPool

\* shutdown() after the quit promises have settled: the three collections are
\* emptied
shutdownDone ==
    /\ poolCtl.shutdown = "quitting"
    /\ pool' = {}
    /\ available' = <<>>
    /\ inUse' = {}
    /\ poolCtl' = [poolCtl EXCEPT !.shutdown = "done"]
    /\ UNCHANGED <<conns, acquirers, now>>
    /\ UNCHANGED notPool

\* time passes: a little more than one idle timeout
PoolTick ==
    /\ now < StartTime + MaxPoolTicks * idleTimeoutMillis
    /\ now' = now + idleTimeoutMillis + 1
    /\ UNCHANGED poolVars
    /\ UNCHANGED notPool

----------------------------------------------------------------------------
(* Specifications *)

\* the state after construction of the services; Redis may or may not have
\* been reachable in SessionManager.initialize
Init ==
    /\ state = "CLOSED"
    /\ failureCount = 0
    /\ lastFailureTime = 0
    /\ successCount = 0
    /\ now = StartTime
    /\ inFlight = 0
    /\ cbEvent = Event("init", FALSE)
    /\ consecutiveExpected = 0
    /\ successRun = 0
    /\ cbResult = "none"
    /\ redis \in BOOLEAN
    /\ redisUp = TRUE
    /\ cache = <<>>
    /\ redisStore = <<>>
    /\ sessions = <<>>
    /\ nextId = 0
    /\ calls = [c \in Calls |-> IdleCall]
    /\ destroyedAt = [s \in SessionIds |-> -1]
    /\ lastAck = NoAck
    /\ observed = [s \in SessionIds |-> 0]
    /\ lemSessions = <<>>
    /\ execs = [e \in ExecIds |-> IdleExec]
    /\ validationCache = <<>>
    /\ tools = [t \in ToolIds |-> IdleTool]
    /\ venvCache = {}
    /\ lemInit = NotInitialized
    /\ baseFiles = <<>>
    /\ pool = {}
    /\ available = <<>>
    /\ inUse = {}
    /\ conns = <<>>
    /\ acquirers = [a \in Acquirers |-> IdleAcquirer]
    /\ poolCtl = [initialized |-> FALSE, init |-> NotConnecting, shutdown |-> "idle", cleaned |-> 0]
    /\ portCache = {}
    /\ vsCalls = <<>>
    /\ lemDestroys = [d \in DestroyIds |-> IdleDestroy]
    /\ lastFreed = NeverFreed
    /\ mcpLimiter = [i \in Identities |-> NoRecord]
    /\ secLimiter = [i \in Identities |-> NoRecord]
    /\ issued = [i \in Identities |-> [n |-> 0, start |-> 0]]
    /\ exhaustedAt = [i \in Identities |-> 0]
    /\ admit = [via |-> "none", who |-> "", outcome |-> ""]

CbNext ==
    \/ ExecuteInvoke
    \/ ExecuteReject
    \/ OperationSucceeds
    \/ OperationFails
    \/ reset
    \/ Tick

BreakerSpec == Init /\ [][CbNext]_vars

SmNext ==
    \/ \E c \in Calls, client \in Clients : createSession(c, client)
    \/ \E c \in Calls, id \in SessionIds : getSession(c, id)
    \/ \E c \in Calls, id \in SessionIds, upd \in UpdateInputs : updateSession(c, id, upd)
    \/ \E c \in Calls : getSessionRedisReply(c)
    \/ \E c \in Calls : getSessionReturn(c)
    \/ \E c \in Calls : updateSessionStore(c)
    \/ \E c \in Calls : updateSessionReturn(c)
    \/ \E c \in Calls, id \in SessionIds : destroySession(c, id)
    \/ \E c \in Calls : destroySessionReturn(c)
    \/ \E c \in Calls, client \in Clients \cup {""} : listSessions(c, client)
    \/ \E c \in Calls : listSessionsPipeline(c)
    \/ \E c \in Calls : listSessionsResults(c)
    \/ \E c \in Calls : listSessionsReturn(c)

\* the session manager within one cache check period
StoreSpec == Init /\ [][SmNext]_vars

SmTimedNext ==
    \/ \E c \in Calls : createSession(c, "clientA")
    \/ \E c \in Calls, id \in SessionIds : getSession(c, id)
    \/ \E c \in Calls, id \in SessionIds :
          updateSession(c, id, [field |-> "status", value |-> "running"])
    \/ \E c \in Calls : getSessionRedisReply(c)
    \/ \E c \in Calls : getSessionReturn(c)
    \/ \E c \in Calls : updateSessionStore(c)
    \/ \E c \in Calls : updateSessionReturn(c)
    \/ \E c \in Calls, id \in SessionIds : destroySession(c, id)
    \/ \E c \in Calls : destroySessionReturn(c)
    \/ \E c \in Calls : listSessions(c, "")
    \/ \E c \in Calls : listSessionsPipeline(c)
    \/ \E c \in Calls : listSessionsResults(c)
    \/ \E c \in Calls : listSessionsReturn(c)
    \/ StoreTick

\* the session manager over several cache check periods
StoreTimedSpec == Init /\ [][SmTimedNext]_vars


SmFaultNext ==
    \/ \E c \in Calls : createSession(c, "clientA")
    \/ \E c \in Calls, id \in SessionIds : getSession(c, id)
    \/ \E c \in Calls, id \in SessionIds :
          updateSession(c, id, [field |-> "status", value |-> "running"])
    \/ \E c \in Calls : getSessionRedisReply(c)
    \/ \E c \in Calls : getSessionReturn(c)
    \/ \E c \in Calls : updateSessionStore(c)
    \/ \E c \in Calls : updateSessionReturn(c)
    \/ \E c \in Calls, id \in SessionIds : destroySession(c, id)
    \/ \E c \in Calls : destroySessionReturn(c)
    \/ StoreTick
    \/ RedisOutage
    \/ RedisRecovers

\* the session manager while the durable tier comes and goes
StoreFaultSpec == Init /\ [][SmFaultNext]_vars

PortNext ==
    \/ \E sid \in VsIds : createVSCodeSession(sid)
    \/ \E sid \in VsIds, spawned \in BOOLEAN : createVSCodeSessionDone(sid, spawned)
    \/ \E sid \in VsIds : createVSCodeSessionFailed(sid)
    \/ \E d \in DestroyIds, sid \in VsIds : lemDestroySession(d, sid)
    \/ \E d \in DestroyIds : lemDestroySessionDone(d)
    \/ PortTick

\* VS Code sessions come and go in the local execution manager
PortSpec == Init /\ [][PortNext]_vars

AdmitNext ==
    \/ \E i \in Identities : handleSTDIORequest(i)
    \/ AdmitTick

\* requests arrive at McpServer.handleSTDIORequest while time passes
AdmitSpec == Init /\ [][AdmitNext]_vars

CallNext ==
    \/ \E i \in Identities : CallTool(i)
    \/ AdmitTick

\* tool invocations arrive at the server index.ts creates (it registers the
\* CallToolRequestSchema handler and constructs no McpServer) while time passes
CallSpec == Init /\ [][CallNext]_vars

SurfaceNext ==
    \/ \E c \in Calls : createVSCodeSessionTool(c)
    \/ \E c \in Calls : vscodeToolAllocate(c)
    \/ \E c \in Calls, spawned \in BOOLEAN : vscodeToolRegister(c, spawned)
    \/ \E c \in Calls : manageSessionsList(c)
    \/ \E c \in Calls : listSessionsPipeline(c)
    \/ \E c \in Calls : listSessionsResults(c)
    \/ \E c \in Calls : manageSessionsListReturn(c)
    \/ \E c \in Calls, id \in SessionIds : manageSessionsDestroy(c, id)
    \/ \E c \in Calls : getSessionRedisReply(c)
    \/ \E c \in Calls : manageDestroyLem(c)
    \/ \E c \in Calls : manageDestroySm(c)
    \/ \E c \in Calls, id \in SessionIds : handleDestroySession(c, id)
    \/ \E c \in Calls : destroySessionReturn(c)

\* sessions are created, listed and destroyed through the tools
SurfaceSpec == Init /\ [][SurfaceNext]_vars

ExecNext ==
    \/ \E sid \in SessionIds : createExecutionSession(sid, "python")
    \/ \E e \in 1..MaxExecs, sid \in SessionIds, lang \in {"python", "csharp"} :
          executeCode(e, sid, Hello, lang)
    \/ \E e \in 1..MaxExecs, ok \in BOOLEAN, ignoresTerm \in BOOLEAN :
          writeFileDone(e, ok, ignoresTerm)
    \/ \E e \in 1..MaxExecs, status \in ExitStatuses : childExit(e, status)
    \/ \E e \in 1..MaxExecs : timeoutFires(e)
    \/ \E e \in 1..MaxExecs : graceFires(e)
    \/ \E e \in 1..MaxExecs : childKilled(e)
    \/ \E e \in 1..MaxExecs : executeCodeReturn(e)

\* executeCode calls against the local execution manager
ExecSpec == Init /\ [][ExecNext]_vars

LoadNext ==
    \/ createExecutionSession(1, "python")
    \/ \E e \in ExecIds : executeCode(e, 1, Hello, "python")
    \/ \E e \in ExecIds : writeFileDone(e, TRUE, FALSE)

ScreenNext ==
    \/ \E code \in ScreenCodes, language \in ScreenLanguages : screenCode(code, language)
    \/ ScreenTick

\* validateCodeExecution applied to a series of (code, language) pairs
ScreenSpec == Init /\ [][ScreenNext]_vars

BuildExecs == 1..MaxBuildExecs

\* a second source text
Goodbye == <<"print('bye')">>

BuildNext ==
    \/ \E ok \in BOOLEAN : initialize(ok)
    \/ \E language \in ProvisionedLanguages, ok \in BOOLEAN : setupLanguage(language, ok)
    \/ initializeDone
    \/ \E sid \in BuildExecs, language \in ProvisionedLanguages :
          /\ lemInit.pc = "ready"
          /\ sid \notin DOMAIN lemSessions
          /\ IF sid = 1 THEN TRUE ELSE sid - 1 \in DOMAIN lemSessions
          /\ createExecutionSession(sid, language)
    \/ \E e \in BuildExecs :
          /\ e \in DOMAIN lemSessions
          /\ executeCode(e, e, IF e = 1 THEN Hello ELSE Goodbye, lemSessions[e].language)
    \/ \E e \in BuildExecs : writeFileDone(e, TRUE, FALSE)
    \/ \E e \in BuildExecs : childCopy(e)
    \/ \E e \in BuildExecs : childRun(e)
    \/ \E e \in BuildExecs : childExit(e, 0)

\* startup of the execution manager; requests are served once initialize() has
\* returned (createServer awaits it), then sessions run builds
BuildSpec == Init /\ [][BuildNext]_vars

\* the pool under load: more callers than maxConnections, every connect succeeds
PoolLoadNext ==
    \/ \E a \in Acquirers : acquire(a)
    \/ \E a \in Acquirers : createConnectionDone(a, TRUE)
    \/ \E a \in Acquirers, timedOut \in BOOLEAN : acquireRetry(a, timedOut)

PoolLoadSpec == Init /\ [][PoolLoadNext]_vars

\* the pool with a few callers and every event of its life cycle
PoolCallers == 1..MaxAcquirers

PoolNext ==
    \/ NewConn <= MaxConns /\ poolInitialize
    \/ \E ok \in BOOLEAN :
          /\ (ok /\ poolCtl.init[2] < minConnections) => NewConn <= MaxConns
          /\ poolInitializeConnected(ok)
    \/ \E a \in PoolCallers : (available # <<>> \/ NewConn <= MaxConns) /\ acquire(a)
    \/ \E a \in PoolCallers, ok \in BOOLEAN : createConnectionDone(a, ok)
    \/ \E a \in PoolCallers : executeStamp(a)
    \/ \E a \in PoolCallers : release(a)
    \/ \E c \in ConnIds : connectionEvent(c)
    \/ cleanupIdleConnections
    \/ shutdown
    \/ shutdownDone
    \/ PoolTick

PoolSpec == Init /\ [][PoolNext]_vars

OutputNext ==
    \/ createExecutionSession(1, "python")
    \/ \E lang \in {"python", "csharp"} : executeCode(1, 1, Hello, lang)
    \/ \E ok \in BOOLEAN : writeFileDone(1, ok, FALSE)
    \/ \E stream \in {"stdout", "stderr"}, chunk \in Chunks : childData(1, stream, chunk)
    \/ \E status \in ExitStatuses : childExit(1, status)
    \/ timeoutFires(1)
    \/ graceFires(1)
    \/ childKilled(1)
    \/ executeCodeReturn(1)

\* one executeCode call whose child writes to both of its pipes
OutputSpec == Init /\ [][OutputNext]_vars

\* many executeCode calls issued while the earlier children are still running
LoadSpec == Init /\ [][LoadNext]_vars

Rejected == <<"import os">>

ToolNext ==
    \/ \E t \in ToolIds, code \in {Hello, Rejected}, sid \in {0} \cup SessionIds :
          executeCodeTool(t, code, "python", sid)
    \/ \E t \in ToolIds, code \in {Hello, Rejected}, sid \in {0} \cup SessionIds :
          ExecuteCodeToolClass(t, code, "python", sid)
    \/ \E t \in ToolIds, code \in {Hello, Rejected}, sid \in {0} \cup SessionIds :
          handleExecuteCode(t, code, "python", sid)
    \/ \E t \in ToolIds : toolCreateExecutionSession(t)
    \/ \E t \in ToolIds : toolExecute(t)
    \/ \E t \in ToolIds : toolResult(t)
    \/ \E t \in ToolIds : toolCleanup(t)
    \/ \E sid \in SessionIds : createPlaywrightSession(sid)
    \/ \E e \in 1..MaxExecs, ok \in BOOLEAN : writeFileDone(e, ok, FALSE)
    \/ \E e \in 1..MaxExecs : childExit(e, 0)
    \/ \E e \in 1..MaxExecs : timeoutFires(e)
    \/ \E e \in 1..MaxExecs : childKilled(e)
    \/ \E e \in 1..MaxExecs : executeCodeReturn(e)

\* requests that run user code, through each entry point
ToolSpec == Init /\ [][ToolNext]_vars

----------------------------------------------------------------------------
(* Claims *)

HoldsRecord(s) ==
    \/ s \in DOMAIN sessions
    \/ RedisKey(s) \in DOMAIN redisStore
    \/ CacheGet(s) # <<>>

(* C1: once destroySession(s) has returned, every getSession(s) issued later
   than the near-cache TTL after that return yields absent and no tier (near
   cache, durable tier, fallback map) holds a record for s, also when an
   update or read of s that started before the destroy completes after it. *)
C1_DestroyedStaysAbsent ==
    \A s \in SessionIds :
        (destroyedAt[s] >= 0 /\ now - destroyedAt[s] > stdTTL * 1000) =>
            /\ ~HoldsRecord(s)
            /\ \A c \in Calls :
                  (calls[c].op = "get" /\ calls[c].sid = s /\ calls[c].pc = "got")
                      => calls[c].snap = <<>>

(* C2: two concurrent updateSession calls on one session id never lose an
   update: when an update returns and no other call on that id is pending,
   the stored record carries its change and the change of the update that
   returned before it (on another field). *)
C2_NoLostUpdate ==
    [][ \A c \in Calls :
          ( /\ calls[c].pc = "stored"
            /\ calls'[c].op = "idle"
            /\ \A d \in Calls \ {c} : calls[d].sid # calls[c].sid
            /\ calls[c].sid \in DOMAIN sessions
            /\ lastAck.sid = calls[c].sid
            /\ lastAck.upd.field # calls[c].upd.field )
          => /\ sessions[calls[c].sid][calls[c].upd.field] = calls[c].upd.value
             /\ sessions[calls[c].sid][lastAck.upd.field] = lastAck.upd.value ]_vars

LegalTransitions ==
    {<<"creating", "running">>, <<"creating", "error">>, <<"running", "stopped">>}

(* C3: the only status changes ever applied to a session are
   creating->running, creating->error and running->stopped; a stopped or
   error session never changes status. *)
C3_StatusMachine ==
    [][ \A s \in DOMAIN sessions \cap DOMAIN sessions' :
           \/ sessions'[s].status = sessions[s].status
           \/ <<sessions[s].status, sessions'[s].status>> \in LegalTransitions ]_vars

(* C4: a result carries exit code 124 exactly when the timeout timer, and not
   the child's own exit, settled the call. *)
C4_ExitCode124IffTimeout ==
    \A e \in ExecIds :
        execs[e].pc \in {"settled", "returned"} =>
            (execs[e].exitCode = 124 <=> execs[e].by = "timeout")

(* C5: on timeout the child is sent SIGTERM, and if it is still running when
   the 5 s timer fires it is sent SIGKILL. *)
C5_KillEscalation ==
    \A e \in ExecIds :
        /\ execs[e].timer = "fired" /\ execs[e].by = "timeout" => execs[e].sig # "none"
        /\ execs[e].grace = "fired" /\ execs[e].aliveAtGrace => execs[e].sigkill

Wrote(e) == execs[e].pc \in {"writing", "running", "settled", "returned"}

(* C6: code the screener rejects never causes a session to be created, a
   source file to be written or a subprocess to be spawned, on any entry
   point. *)
C6_ScreenerHardGate ==
    \A t \in ToolIds :
        (tools[t].pc # "idle" /\ ~performCodeValidation(tools[t].code, tools[t].lang).valid)
            => /\ ~tools[t].temp
               /\ tools[t].exec # 0 =>
                     ~Wrote(tools[t].exec) /\ execs[tools[t].exec].child = "none"

InFlight(e) == execs[e].pc = "writing" \/ execs[e].child = "running"

(* C7: for every session id at most one executeCode call is writing its source
   file or has a running child. *)
C7_OneInFlightPerSession ==
    \A e1 \in ExecIds, e2 \in ExecIds :
        (e1 # e2 /\ execs[e1].sid = execs[e2].sid /\ InFlight(e1)) => ~InFlight(e2)

(* C8: the number of running children never exceeds the configured
   concurrency. *)
C8_ConcurrencyBound ==
    Cardinality({e \in ExecIds : execs[e].child = "running"}) <= concurrency

(* C9: starting from CLOSED the breaker opens exactly when failureThreshold
   consecutive expected errors have occurred: while CLOSED fewer than
   failureThreshold expected failures have occurred since the last success,
   a CLOSED breaker becomes OPEN in a step if and only if that step is an
   expected failure that brings the run of expected failures to
   failureThreshold, and every success resets the failure count to zero. *)
C9_ClosedToOpen ==
    /\ [](state = "CLOSED" => consecutiveExpected < failureThreshold)
    /\ [][ /\ state = "CLOSED" =>
                ( state' = "OPEN" <=>
                    /\ cbEvent'.kind = "failure"
                    /\ cbEvent'.expected
                    /\ consecutiveExpected' >= failureThreshold )
           /\ cbEvent'.kind = "success" =>
                (failureCount' = 0 /\ consecutiveExpected' = 0)
           /\ failureCount' = consecutiveExpected' ]_vars

C9_Witness ==
    /\ state = "OPEN"
    /\ cbEvent.kind = "failure"
    /\ consecutiveExpected = failureThreshold
    /\ successCount = 0
    /\ now > resetTimeout

(* C10: while OPEN and before resetTimeout has elapsed since the last counted
   failure, execute rejects without invoking the operation; an execute made
   once resetTimeout has elapsed moves the breaker to HALF_OPEN and invokes
   the operation; the breaker leaves OPEN for HALF_OPEN in no other step. *)
C10_LazyHalfOpen ==
    [][ /\ (state = "OPEN" /\ now - lastFailureTime < resetTimeout) =>
              /\ cbEvent'.kind # "invoke"
              /\ inFlight' <= inFlight
              /\ state' # "HALF_OPEN"
        /\ (state = "OPEN" /\ cbEvent'.kind \in {"invoke", "reject"}) =>
              IF now - lastFailureTime >= resetTimeout
              THEN /\ cbEvent'.kind = "invoke"
                   /\ state' = "HALF_OPEN"
                   /\ inFlight' = inFlight + 1
              ELSE /\ cbEvent'.kind = "reject"
                   /\ state' = "OPEN"
                   /\ inFlight' = inFlight
        /\ (state = "OPEN" /\ state' = "HALF_OPEN") =>
              /\ cbEvent'.kind = "invoke"
              /\ now - lastFailureTime >= resetTimeout ]_vars

C10_Witness ==
    /\ state = "HALF_OPEN"
    /\ cbEvent.kind = "invoke"
    /\ now - lastFailureTime = resetTimeout
    /\ failureCount >= failureThreshold

(* C11: the breaker goes from HALF_OPEN to CLOSED (other than by a manual
   reset) only in a step that completes a run of recoverSuccesses successful
   operations with no failed operation of any kind between them, and at that
   moment failureCount and successCount are both zero. *)
C11_CloseAfterConsecutiveSuccesses ==
    [][ (state = "HALF_OPEN" /\ state' = "CLOSED" /\ cbEvent'.kind # "reset") =>
            /\ cbEvent'.kind = "success"
            /\ successRun + 1 >= recoverSuccesses
            /\ failureCount' = 0
            /\ successCount' = 0 ]_vars

(* C12: in HALF_OPEN every failure of the wrapped operation, whatever the
   error, moves the breaker to OPEN and sets successCount to zero. *)
C12_HalfOpenFailureOpens ==
    [][ (state = "HALF_OPEN" /\ cbEvent'.kind = "failure") =>
            (state' = "OPEN" /\ successCount' = 0) ]_vars

(* C13: a failure that does not match expectedErrors leaves state,
   failureCount, successCount and lastFailureTime unchanged, and the error is
   rethrown to the caller of execute. *)
C13_UnexpectedNotCounted ==
    [][ (cbEvent'.kind = "failure" /\ ~cbEvent'.expected /\ inFlight' < inFlight) =>
            /\ UNCHANGED <<state, failureCount, successCount, lastFailureTime>>
            /\ cbResult' = "threw error" ]_vars

C13_Witness ==
    /\ cbEvent.kind = "failure"
    /\ ~cbEvent.expected
    /\ cbResult = "threw error"
    /\ state = "CLOSED"
    /\ failureCount = failureThreshold - 1

(* C14: a put (createSession or updateSession) whose fallback write succeeded
   does not reject: at the moment a put rejects, the fallback map does not
   hold the record. *)
C14_PutSucceedsWithFallback ==
    [][ \A c \in Calls :
          (calls'[c].err \in {"create", "update"} /\ calls'[c] # calls[c])
              => calls'[c].sid \notin DOMAIN sessions' ]_vars

(* C15: getSession(id) falls through to the fallback map after a durable-tier
   miss or read error: it never returns absent while the fallback map holds
   id. *)
C15_FallsThroughToFallback ==
    [][ \A c \in Calls :
          ( calls'[c].op = "get" /\ calls'[c].pc = "got" /\ calls[c].pc # "got"
            /\ calls'[c].snap = <<>> )
              => calls'[c].sid \notin DOMAIN sessions ]_vars

(* C16: destroySession returns success when only the durable-tier delete
   failed: no destroySession call rejects. *)
C16_DestroyToleratesDurableFailure ==
    [][ \A c \in Calls :
          (calls[c].op = "destroy" /\ calls'[c].op = "idle") => calls'[c].err = "" ]_vars


(* C17: the ports held by the sessions of the local execution manager that
   are live at the same time are pairwise distinct, and each of them lies in
   [8080, 9999]. *)
C17_PortsDistinctInRange ==
    \A a, b \in DOMAIN lemSessions :
        lemSessions[a].port # 0 =>
            /\ lemSessions[a].port \in startPort..endPort
            /\ (a # b => lemSessions[a].port # lemSessions[b].port)

(* C18: a port freed by destroying its session is not issued again before
   the cool-down of 30 s has elapsed since it was freed. *)
C18_CoolDownBeforeReissue ==
    [][ (lastFreed.port # 0 /\ lastFreed.port \in portCache' \ portCache)
            => now - lastFreed.at >= 30 * 1000 ]_vars


\* the step is a call of identity i at one of the entry points
IsCallOf(i) == issued'[i] # issued[i]

(* C19: when an identity has already issued its N = 100 points' worth of
   calls in the current 60 s window, its next call is refused, at the tool
   invocation entry point as well as at the request entry point. *)
C19_OverLimitCallRefused ==
    [][ \A i \in Identities :
          ( IsCallOf(i) /\ issued[i].n >= points /\ now < issued[i].start + duration * 1000 )
              => admit'.outcome # "served" ]_vars

(* C20: once an identity was refused for exhausting its points, none of its
   requests is served before the block duration of 300 s has elapsed since
   that refusal; the end of the 60 s window does not re-admit it. *)
C20_BlockedForBlockDuration ==
    [][ \A i \in Identities :
          ( IsCallOf(i) /\ admit'.via = "stdio" /\ exhaustedAt[i] # 0
            /\ now - exhaustedAt[i] < secBlockDuration * 1000 )
              => admit'.outcome # "served" ]_vars


(* C21: when execute_code was called without a session id and the call has
   returned or thrown, neither the session manager nor the execution manager
   holds the transient session the call created. *)
C21_TransientSessionRemoved ==
    \A t \in ToolIds :
        (tools[t].temp /\ tools[t].pc \in {"done", "threw"}) =>
            /\ ~HoldsRecord(tools[t].actual)
            /\ tools[t].actual \notin DOMAIN lemSessions


\* the records the tiers of the session store hold for s
StoredRecords(s) ==
    (IF s \in DOMAIN sessions THEN {sessions[s]} ELSE {})
      \cup (IF RedisKey(s) \in DOMAIN redisStore THEN {Parse(redisStore[RedisKey(s)])} ELSE {})
      \cup (IF CacheGet(s) # <<>> THEN {CacheGet(s)[1]} ELSE {})

(* C22: an execution request writes its file only when the session store
   holds the referenced session and the stored status is not terminal
   (stopped or error); otherwise it is rejected before any write or spawn. *)
C22_RejectsAbsentOrTerminal ==
    [][ \A e \in ExecIds :
          (execs[e].pc = "idle" /\ execs'[e].pc = "writing") =>
              /\ StoredRecords(execs'[e].sid) # {}
              /\ \A rec \in StoredRecords(execs'[e].sid) :
                    rec.status \notin {"stopped", "error"} ]_vars


(* C24: the lastAccessedAt of a session, as observed through successive
   results of getSession, updateSession and listSessions, never decreases. *)
C24_LastAccessedMonotonic ==
    [][ \A s \in SessionIds : observed'[s] >= observed[s] ]_vars


(* C23: when a destroy of a session has completed, by whatever path, the
   execution manager holds no workspace, helper process or port for it. *)
C23_DestroyRemovesWorkspace ==
    [][ \A c \in Calls :
          (calls[c].pc = "destroying" /\ calls'[c].op = "idle" /\ calls'[c].err = "")
              => calls[c].sid \notin DOMAIN lemSessions' ]_vars

\* the records the tiers of the session store hold for s after the step
StoredRecordsAfter(s) ==
    (IF s \in DOMAIN sessions' THEN {sessions'[s]} ELSE {})
      \cup (IF RedisKey(s) \in DOMAIN redisStore'
            THEN {Parse(redisStore'[RedisKey(s)])} ELSE {})
      \cup (IF s \in DOMAIN cache' /\ ~(cache'[s].t < now') THEN {cache'[s].rec} ELSE {})

(* C25: when the provisioning of a session has finished, its stored status is
   no longer creating: running after a successful provisioning, error after
   a failed one. *)
C25_ProvisionedLeavesCreating ==
    [][ \A c \in Calls :
          (calls[c].op = "vscodeTool" /\ calls[c].pc = "mkdir" /\ calls'[c].op = "idle")
              => \A rec \in StoredRecordsAfter(calls[c].sid) : rec.status # "creating" ]_vars

\* no call other than c is pending in the session manager or the execution manager
Quiet(c) ==
    /\ \A o \in Calls \ {c} : calls[o].op = "idle"
    /\ vsCalls = <<>>
    /\ \A d \in DestroyIds : lemDestroys[d].pc = "idle"

(* C26: after N sessions were created through the tools and M of them
   destroyed, with no other call pending, manage_sessions list returns
   exactly N - M records. *)
C26_ListCountsCreatedMinusDestroyed ==
    [][ \A c \in Calls :
          ( calls[c].op = "idle" /\ calls'[c].op = "list" /\ calls'[c].pc = "listed"
            /\ Quiet(c) )
              => Len(calls'[c].acc)
                   = nextId - Cardinality({s \in SessionIds : destroyedAt[s] # -1}) ]_vars

(* C27: a destroy of a session whose destroy has already completed returns
   success and not an error. *)
C27_DestroyIdempotent ==
    [][ \A c \in Calls :
          ( calls[c].op = "manageDestroy" /\ calls'[c].op = "idle"
            /\ destroyedAt[calls[c].sid] # -1 )
              => calls'[c].err = "" ]_vars

\* C28: for every execution the captured stdout and the captured stderr are
\* each at most the cap of 10 MiB plus the length of the truncation marker
\* (at most 29 characters)
C28_OutputWithinCap ==
    \A e \in ExecIds :
        execs[e].pc \in {"settled", "returned"} =>
            /\ execs[e].result.stdout <= 10 * 1024 * 1024 + 29
            /\ execs[e].result.stderr <= 10 * 1024 * 1024 + 29

\* C29: whatever pairs were screened before, validateCodeExecution returns for
\* every (language, code) the verdict an un-memoized screening of that pair gives
C29_VerdictIsPure ==
    \A code \in ScreenCodes, language \in ScreenLanguages :
        Verdict(code, language) = performCodeValidation(code, language)

\* C30: listSessions(clientId) returns every session of clientId that the near
\* cache or the durable tier (the fallback map when no durable tier is
\* configured) holds from the call to its completion, and returns each session
\* id at most once
C30_ListReturnsAllOwned ==
    [][ \A c \in Calls :
          ( calls[c].pc # "listed" /\ calls'[c].op = "list" /\ calls'[c].pc = "listed" )
              => LET acc == calls'[c].acc
                     held == calls'[c].held \cap HeldBy(calls'[c].client)
                 IN /\ held \subseteq {acc[i].id : i \in DOMAIN acc}
                    /\ \A i, j \in DOMAIN acc : acc[i].id = acc[j].id => i = j ]_vars

\* C31: on every exit path the child process is no longer running by the time
\* executeCode has returned its result to the caller
C31_ChildReapedAtReturn ==
    \A e \in ExecIds :
        execs[e].pc = "returned" => execs[e].child # "running"

\* C32: once executeCode has returned, on every exit path, the temporary source
\* file it wrote into the session workspace has been deleted
C32_TempFileDeleted ==
    \A e \in ExecIds :
        execs[e].pc = "returned" => ~execs[e].file

C35_BaseWorkspaceImmutable ==
    [][ lemInit.pc = "ready" => baseFiles' = baseFiles ]_vars

\* C37: every execution runs the source text of its own request
C37_RunsOwnSource ==
    \A e \in ExecIds :
        execs[e].phase = "ran" => execs[e].ran = execs[e].code

\* C38: in every reachable state of the breaker, whatever the order in which
\* concurrent operations complete and reset is called, state = CLOSED implies
\* failureCount < failureThreshold and state # HALF_OPEN implies successCount = 0
C38_BreakerCountersConsistent ==
    /\ state = "CLOSED" => failureCount < failureThreshold
    /\ state # "HALF_OPEN" => successCount = 0

\* the breaker has closed again after a recovery while another operation,
\* started before it closed, is still pending
C38_Witness ==
    /\ state = "CLOSED"
    /\ cbEvent = Event("success", FALSE)
    /\ lastFailureTime > 0
    /\ inFlight > 0

\* C34: the pool never holds more than maxConnections connections, whatever
\* the number of concurrent acquirers.
C34_PoolBounded == Cardinality(pool) <= maxConnections

\* the callers that hold a connection they have not released yet
Holders(c) == {a \in Acquirers : acquirers[a].pc \in {"holding", "operating"} /\ acquirers[a].conn = c}

\* C39: in every reachable state of the pool no connection is both available
\* and in use, every available or in-use connection belongs to the pool, and
\* no connection is held by two acquirers that have not yet released it.
C39_PoolConsistent ==
    /\ \A i \in DOMAIN available : available[i] \notin inUse
    /\ \A i \in DOMAIN available : available[i] \in pool
    /\ inUse \subseteq pool
    /\ \A c \in ConnIds : Cardinality(Holders(c)) <= 1

\* a caller holds a connection that an earlier holder used and released,
\* while the other caller still holds a connection that shutdown() has
\* dropped from the pool
C39_Witness ==
    /\ poolCtl.shutdown = "done"
    /\ \E a, b \in Acquirers :
          /\ a # b
          /\ Holders(acquirers[a].conn) = {a}
          /\ Holders(acquirers[b].conn) = {b}
          /\ acquirers[a].conn \in inUse
          /\ conns[acquirers[a].conn].lastUsed > 0
          /\ acquirers[a].pc = "holding"
          /\ acquirers[b].conn \notin pool
          /\ conns[acquirers[b].conn].status = "ready"

\* the VS Code sessions registered without a helper process and port
WorkspaceOnly == {sid \in DOMAIN lemSessions :
                    IF lemSessions[sid].language = "vscode" THEN lemSessions[sid].port = 0 ELSE FALSE}

\* C36: a VS Code session created while the helper could not be started is
\* workspace-only and has no endpoint: no URL or port is reported for it.
C36_WorkspaceOnlyHasNoEndpoint == \A sid \in WorkspaceOnly : getVSCodeUrl(sid) = NoUrl

\* the sessions and the pending createVSCodeSession calls that own port p
PortOwners(p) == {sid \in DOMAIN lemSessions :
                    IF lemSessions[sid].language = "vscode" THEN lemSessions[sid].port = p ELSE FALSE}
PortClaims(p) == {sid \in DOMAIN vsCalls : vsCalls[sid] = p}

\* C40: every port marked in use in the port cache is the recorded port of
\* exactly one live session (or of the one creation still in progress).
C40_NoPortLeaked ==
    \A p \in portCache : Cardinality(PortOwners(p)) + Cardinality(PortClaims(p)) = 1

====
